---------------------------- MODULE Spec2Model ----------------------------
(***************************************************************************)
(* Verification model of the claudeclaw weather-arbitrage trader.          *)
(*                                                                         *)
(*   trader/autonomous_trader_v2.py         monitor_positions,             *)
(*                                          check_exit_triggers,           *)
(*                                          check_consensus_hold,          *)
(*                                          scan_and_trade                 *)
(*   polymarket-trader/scripts/early_exit_manager.py                       *)
(*                                          Position, PositionTracker,     *)
(*                                          execute_full_exit              *)
(*   polymarket-trader/scripts/weather_arb.py                              *)
(*                                          get_ensemble_forecast,         *)
(*                                          calculate_probability,         *)
(*                                          analyze_weather_event          *)
(*   polymarket-trader/scripts/risk_manager.py                             *)
(*                                          check_can_trade, record_trade, *)
(*                                          record_outcome                 *)
(*   trader/order_monitor.py                main                           *)
(*   trader-backup-20260218/polymarket-trader/scripts/                     *)
(*     early_exit_manager.py                check_exit_trigger,            *)
(*                                          execute_early_exit,            *)
(*                                          monitor_and_exit               *)
(*                                                                         *)
(* Units.  The program computes with Python floats; the model computes     *)
(* with exact integers in scaled units, and the input sets below are       *)
(* chosen so that on every compared pair the float and the exact result    *)
(* agree (no compared pair differs by less than one unit):                 *)
(*   prices            mills       (0.001 USD; 0.65 is 650)                *)
(*   money             mills       (5.00 USD is 5000)                      *)
(*   edges             tenths of a percentage point (20% is 200)           *)
(*   hours             tenths of an hour (7.9 h is 79)                     *)
(*   temperatures      inputs in tenths of a degree Celsius (29.5 is 295); *)
(*                     native-unit values in 1/450 of a degree             *)
(*   confidence        1/400 (0.80 is 320, 0.98 is 392)                    *)
(*   probabilities     millionths (0.90 is 900000)                         *)
(*   adjusted edges    (probability - price) times confidence, i.e.        *)
(*                     percentage points / 4000000 (20% is 80000000)       *)
(*   source weights    twentieths (0.35 is 7)                              *)
(* An optional value (Python None) is the empty sequence, a present value  *)
(* v is <<v>>.                                                             *)
(***************************************************************************)
EXTENDS Integers, Sequences, FiniteSets, TLC

VARIABLES
    positions,    \* PositionTracker.positions: token_id -> Position
    exits,        \* PositionTracker.exits: sequence of exit records
    mon_pc,       \* monitor_positions: "idle" | "loop" | "done"
    mon_queue,    \* positions still to visit in the running cycle
    mon_snapshot, \* tokens returned by get_active_positions() at cycle start
    journal,      \* table rows logged in the running cycle
    dec,          \* inputs and outcome of the last per-position decision
    hold_in,      \* arguments of one check_consensus_hold call
    hold_out,     \* result of that call: <<>> before the call, <<bool>> after
    open_orders,  \* open_orders.json: sequence of order records
    balance_usdc, \* balance handed to scan_and_trade
    live,         \* CLOB market data: condition_id -> None | <<price of the wanted side>>
    scan_pc,      \* scan_and_trade: "idle" | "place" | "done"
    orders_at_start, \* open_orders.json as loaded at line 559
    qualifying,   \* ranked candidates (line 722)
    scan_idx,     \* index in qualifying of the next loop iteration
    orders_placed,
    max_new_orders,
    pos_size,
    existing_cids,
    existing_event_ids,
    outcomes,     \* per visited candidate: what the loop did with it
    ens_pc,       \* analysis of one event: "idle" | "analyzed" | "filtered"
    ens_in,       \* the event handed to analyze_weather_event and the source responses
    ens_forecast, \* get_ensemble_forecast result: <<>> (None) or <<forecast>>
    ens_opps,     \* opportunities returned by analyze_weather_event
    ens_qualified, \* those that pass the entry filter of scan_and_trade
    prob_in,      \* arguments of one calculate_probability call
    prob_out,     \* its result: <<>> before the call, <<probability>> after
    size_in,      \* balances handed to position_size_for
    size_out,     \* the sizes returned: <<>> before the calls
    pos_file,     \* positions_state.json
    ord_file,     \* open_orders.json
    ts_file,      \* trading_state.json
    clob,         \* buy orders on the exchange: order id -> "LIVE" | "FILLED" | "CANCELLED"
    sells,        \* exit orders the exchange accepted
    run_pc,       \* the running process: "off", or its position in main
    loaded,       \* what the running process found at its start
    tracker,      \* its PositionTracker
    mem_orders,   \* its in-memory order list
    run_queue,    \* items its current loop has still to visit
    run_cur,      \* token of the item being handled across a save
    wr,           \* the write in progress: <<>> or <<file, data, continuation>>
    run_trace,    \* what the running process has done so far
    exited_ok,    \* order ids of positions whose execute_full_exit returned a record
    ttl_passed,   \* order ids whose ttl_expiry lies in the past
    tracked,      \* order ids for which tracker.add_position has been called
    pe_positions, \* partial-exit policy: PositionTracker.positions
    pe_exits,     \* partial-exit policy: PositionTracker.exits (EarlyExit records)
    pe_pc,        \* monitor_and_exit: "idle" | "loop"
    pe_queue,     \* positions monitor_and_exit has still to visit
    pe_last,      \* inputs and outcome of its last loop iteration
    rm_state,     \* risk_manager: the state dict (config/trading_state.json)
    rm_now,       \* datetime.utcnow(), in ticks
    rm_last,      \* the last risk_manager call and what it returned
    ov_file,      \* overlapping runs: open_orders.json, a sequence of order records
    ov_tr,        \* overlapping runs: the trader's placement step and its all_orders
    ov_om,        \* overlapping runs: the order-monitor pass, its queue and its all_orders
    ov_recorded   \* overlapping runs: ids of the orders the trader has saved

monVars  == <<positions, exits, mon_pc, mon_queue, mon_snapshot, journal, dec>>
holdVars == <<hold_in, hold_out>>
scanVars == <<open_orders, balance_usdc, live, scan_pc, orders_at_start, qualifying,
              scan_idx, orders_placed, max_new_orders, pos_size, existing_cids,
              existing_event_ids, outcomes>>
ensVars  == <<ens_pc, ens_in, ens_forecast, ens_opps, ens_qualified>>
partialVars == <<pe_positions, pe_exits, pe_pc, pe_queue, pe_last>>
riskVars == <<rm_state, rm_now, rm_last>>
overlapVars == <<ov_file, ov_tr, ov_om, ov_recorded>>
sideVars == <<partialVars, riskVars, overlapVars>>
pureVars == <<prob_in, prob_out, size_in, size_out, sideVars>>
runVars  == <<pos_file, ord_file, ts_file, clob, sells, run_pc, loaded, tracker,
              mem_orders, run_queue, run_cur, wr, run_trace, exited_ok, ttl_passed,
              tracked>>
vars     == <<positions, exits, mon_pc, mon_queue, mon_snapshot, journal, dec,
              hold_in, hold_out,
              open_orders, balance_usdc, live, scan_pc, orders_at_start, qualifying,
              scan_idx, orders_placed, max_new_orders, pos_size, existing_cids,
              existing_event_ids, outcomes,
              ens_pc, ens_in, ens_forecast, ens_opps, ens_qualified,
              prob_in, prob_out, size_in, size_out,
              pos_file, ord_file, ts_file, clob, sells, run_pc, loaded, tracker,
              mem_orders, run_queue, run_cur, wr, run_trace, exited_ok,
              pe_positions, pe_exits, pe_pc, pe_queue, pe_last,
              rm_state, rm_now, rm_last,
              ttl_passed, tracked,
              ov_file, ov_tr, ov_om, ov_recorded>>

None == <<>>
Some(v) == <<v>>

Max(a, b) == IF a >= b THEN a ELSE b
Min(a, b) == IF a <= b THEN a ELSE b

SetMax(S) == CHOOSE x \in S : \A y \in S : y <= x
SetMin(S) == CHOOSE x \in S : \A y \in S : x <= y

Range(s) == { s[i] : i \in 1..Len(s) }

-----------------------------------------------------------------------------
(* Input sets *)

Tokens == {"t1", "t2"}

\* Live prices (mills) an order book can return for a held token.
\* 375 = 75%, 400 = 80%, 470 = 94%, 475 = 95%, 650 = 130% of a 5.00 USD
\* position of 10 shares.
MonitorPrices == {375, 400, 470, 475, 550, 650}

\* Hours (tenths) from now to a parseable market_date.
MonitorHours == {4, 5, 60, 61, 79, 80, 120, 121, 240, 241}

\* What parse_resolution_time substitutes for an unparseable date: now + 30 days.
ThirtyDays == 30 * 24 * 10

\* Source high estimates, tenths of a degree Celsius.
HighsC == {70, 80, 90, 100, 120, 130}

ForecastSample == [high_c : HighsC, is_local : BOOLEAN]

\* Positions the tracker can hold.  cost_basis is the order amount and shares
\* the filled size (order_monitor.py), so shares * entry_price need not equal
\* cost_basis.  original_edge is None when the state file stores null.
PositionUniverse ==
    [ condition_id     : {"c0"},
      side             : {"YES", "NO"},
      entry_price      : {400, 500},
      shares           : {10},
      cost_basis       : {5000},
      original_edge    : {None, Some(200), Some(300)},
      threshold_temp_f : {0, 50},
      market_date      : {"", "iso"},
      is_us_market     : BOOLEAN ]

\* The position loaded first, when two are held.
FirstPositions ==
    { [ condition_id |-> "c9", side |-> "NO", entry_price |-> 500, shares |-> 10,
        cost_basis |-> 5000, original_edge |-> Some(200), threshold_temp_f |-> 50,
        market_date |-> d, is_us_market |-> FALSE ] : d \in {"", "iso"} }

\* Inputs per token: the position held under "t2" is exercised on the full
\* input sets, the one under "t1" on a few values of each.
PricesFor(tok) == IF tok = "t1" THEN {400, 550} ELSE MonitorPrices
HoursFor(tok)  == IF tok = "t1" THEN {79, 240} ELSE MonitorHours

-----------------------------------------------------------------------------
(* autonomous_trader_v2.py: pure helpers *)

\* hours_to_resolution: None when the date does not parse, else the hours
\* between the date and now (`hrs` is that difference, an input).
hours_to_resolution(market_date, hrs) ==
    IF market_date = "" THEN None ELSE Some(hrs)

\* parse_resolution_time + the subtraction of now at its callers.
hours_remaining_of(market_date, hrs) ==
    IF market_date = "" THEN ThirtyDays ELSE hrs

\* recalculate_edge: both branches of the side test compute the same value.
recalculate_edge(position, current_price) ==
    IF position.original_edge = None THEN 0
    ELSE LET original_edge == position.original_edge[1]
             forecast_prob == position.entry_price + original_edge
             fresh_edge    == forecast_prob - current_price
         IN  Max(fresh_edge, 0)

check_exit_triggers_swapped(position, current_price, hrs) ==
    LET cost  == position.cost_basis
        value == position.shares * current_price
        ttl   == hours_to_resolution(position.market_date, hrs)
    IN  IF ttl # None /\ ttl[1] < 80 THEN "time"
        ELSE IF recalculate_edge(position, current_price) < 100 THEN "edge_evap"
        ELSE IF value * 100 <= cost * 80 THEN "stop_loss"
        ELSE IF value * 100 >= cost * 130 THEN "profit"
        ELSE "none"

check_exit_triggers_strict_profit(position, current_price, hrs) ==
    LET cost  == position.cost_basis
        value == position.shares * current_price
        ttl   == hours_to_resolution(position.market_date, hrs)
    IN  IF ttl # None /\ ttl[1] < 80 THEN "time"
        ELSE IF value * 100 <= cost * 80 THEN "stop_loss"
        ELSE IF recalculate_edge(position, current_price) < 100 THEN "edge_evap"
        ELSE IF value * 100 > cost * 130 THEN "profit"
        ELSE "none"

check_exit_triggers_guard_first(position, current_price, hrs) ==
    LET cost  == position.cost_basis
        value == position.shares * current_price
        ttl   == hours_to_resolution(position.market_date, hrs)
    IN  IF value * 100 <= cost * 80 THEN "stop_loss"
        ELSE IF ttl # None /\ ttl[1] < 80 THEN "time"
        ELSE IF recalculate_edge(position, current_price) < 100 THEN "edge_evap"
        ELSE IF value * 100 >= cost * 130 THEN "profit"
        ELSE "none"

\* check_exit_triggers: returns the trigger name, "none" for (None, None).
check_exit_triggers(position, current_price, hrs) ==
    LET cost  == position.cost_basis
        value == position.shares * current_price
        ttl   == hours_to_resolution(position.market_date, hrs)
        near_resolution == ttl # None /\ ttl[1] < 80
    IN  IF ttl # None /\ ttl[1] < 80 THEN "time"
        ELSE IF ~near_resolution /\ value * 100 <= cost * 80 THEN "stop_loss"
        ELSE IF ~near_resolution /\ recalculate_edge(position, current_price) < 100
             THEN "edge_evap"
        ELSE IF value * 100 >= cost * 130 THEN "profit"
        ELSE "none"

\* early_exit_manager.check_stop_loss: value <= 80% of cost basis.
check_stop_loss(position, current_price) ==
    position.shares * current_price * 100 <= position.cost_basis * 80

\* get_required_margin, in whole degrees of the market's unit.
get_required_margin(hours_remaining, is_us_market) ==
    IF is_us_market
    THEN IF hours_remaining > 120 THEN 5
         ELSE IF hours_remaining > 60 THEN 4
         ELSE 2
    ELSE IF hours_remaining > 120 THEN 3
         ELSE IF hours_remaining > 60 THEN 2
         ELSE 1

\* weather_arb.prepare_forecasts_for_market: high_c (tenths of a degree C) to
\* the native unit in 1/450 degree: high_c * 9/5 + 32 for US markets.
prepare_forecasts_for_market(forecasts, is_us_market) ==
    [ i \in 1..Len(forecasts) |->
        [ high     |-> IF is_us_market
                       THEN forecasts[i].high_c * 81 + 32 * 450
                       ELSE forecasts[i].high_c * 45,
          is_local |-> forecasts[i].is_local ] ]

\* monitor_positions lines 480-487: threshold_temp_f (whole degrees F) to the
\* native unit in 1/450 degree: (threshold_raw - 32) * 5/9 for non-US markets.
native_threshold(threshold_raw, is_us_market) ==
    IF threshold_raw # 0 /\ is_us_market THEN Some(threshold_raw * 450)
    ELSE IF threshold_raw # 0 /\ ~is_us_market THEN Some((threshold_raw - 32) * 250)
    ELSE None

check_consensus_hold_no_local(position, forecasts, threshold, is_us_market, current_price, hours_remaining) ==
    IF Len(forecasts) < 2 THEN FALSE
    ELSE IF hours_remaining > 240 THEN FALSE
    ELSE IF hours_remaining < 5 THEN FALSE
    ELSE
      LET required_margin == get_required_margin(hours_remaining, is_us_market)
          highs == { forecasts[i].high : i \in 1..Len(forecasts) }
          all_correct_side ==
              IF position.side = "NO" THEN \A h \in highs : h < threshold
                                      ELSE \A h \in highs : h >= threshold
          margin == IF position.side = "NO" THEN threshold - SetMax(highs)
                                            ELSE SetMin(highs) - threshold
      IN  IF ~all_correct_side THEN FALSE
          ELSE IF margin < required_margin * 450 THEN FALSE
          ELSE position.shares * current_price * 100 >= 95 * position.cost_basis

check_consensus_hold_deep_floor(position, forecasts, threshold, is_us_market, current_price, hours_remaining) ==
    IF Len(forecasts) < 2 THEN FALSE
    ELSE IF ~(\E i \in 1..Len(forecasts) : forecasts[i].is_local) THEN FALSE
    ELSE IF hours_remaining > 240 THEN FALSE
    ELSE IF hours_remaining < 5 THEN FALSE
    ELSE
      LET required_margin == get_required_margin(hours_remaining, is_us_market)
          highs == { forecasts[i].high : i \in 1..Len(forecasts) }
          all_correct_side ==
              IF position.side = "NO" THEN \A h \in highs : h < threshold
                                      ELSE \A h \in highs : h >= threshold
          margin == IF position.side = "NO" THEN threshold - SetMax(highs)
                                            ELSE SetMin(highs) - threshold
          current_value == position.shares * current_price
      IN  IF ~all_correct_side THEN FALSE
          ELSE IF margin < required_margin * 450 THEN FALSE
          ELSE (current_value - position.cost_basis) * 100
                   >= (0 - 25) * position.cost_basis

\* check_consensus_hold: the boolean of the returned pair.
check_consensus_hold(position, forecasts, threshold, is_us_market, current_price, hours_remaining) ==
    IF Len(forecasts) < 2 THEN FALSE
    ELSE IF ~(\E i \in 1..Len(forecasts) : forecasts[i].is_local) THEN FALSE
    ELSE IF hours_remaining > 240 THEN FALSE
    ELSE IF hours_remaining < 5 THEN FALSE
    ELSE
      LET required_margin == get_required_margin(hours_remaining, is_us_market)
          highs == { forecasts[i].high : i \in 1..Len(forecasts) }
          all_correct_side ==
              IF position.side = "NO" THEN \A h \in highs : h < threshold
                                      ELSE \A h \in highs : h >= threshold
          most_aggressive ==
              IF position.side = "NO" THEN SetMax(highs) ELSE SetMin(highs)
          margin == IF position.side = "NO" THEN threshold - most_aggressive
                                            ELSE most_aggressive - threshold
          current_value == position.shares * current_price
          \* pnl_pct = (current_value - cost_basis) / cost_basis * 100 < -5.0
          pnl_below == (current_value - position.cost_basis) * 100
                           < (0 - 5) * position.cost_basis
      IN  IF ~all_correct_side THEN FALSE
          ELSE IF margin < required_margin * 450 THEN FALSE
          ELSE IF pnl_below THEN FALSE
          ELSE TRUE

-----------------------------------------------------------------------------
(* autonomous_trader_v2.py: monitor_positions *)

\* What the ensemble fetch of lines 449-494 can deliver for one position:
\* None (city unknown, no ensemble, empty "individual", or an exception),
\* or the individual source samples.
MonitorForecasts ==
    { None,
      Some(<<[high_c |-> 70,  is_local |-> TRUE],  [high_c |-> 70,  is_local |-> FALSE]>>),
      Some(<<[high_c |-> 130, is_local |-> TRUE],  [high_c |-> 130, is_local |-> FALSE]>>),
      Some(<<[high_c |-> 70,  is_local |-> FALSE], [high_c |-> 70,  is_local |-> FALSE]>>),
      Some(<<[high_c |-> 70,  is_local |-> TRUE],  [high_c |-> 90,  is_local |-> FALSE]>>) }

ForecastsFor(tok) ==
    IF tok = "t1"
    THEN { None, Some(<<[high_c |-> 70, is_local |-> TRUE], [high_c |-> 70, is_local |-> FALSE]>>) }
    ELSE MonitorForecasts

\* Lines 446-494: the consensus-hold flag computed for one position.
consensus_hold_for(pos, current_price, hrs, fcs) ==
    IF fcs = None THEN FALSE
    ELSE LET converted == prepare_forecasts_for_market(fcs[1], pos.is_us_market)
             threshold == native_threshold(pos.threshold_temp_f, pos.is_us_market)
         IN  IF threshold = None THEN FALSE
             ELSE check_consensus_hold(pos, converted, threshold[1], pos.is_us_market,
                                       current_price,
                                       hours_remaining_of(pos.market_date, hrs))

ExitAction(trigger) ==
    CASE trigger = "time"      -> "EXIT (time)"
      [] trigger = "stop_loss" -> "EXIT (stop_loss)"
      [] trigger = "edge_evap" -> "EXIT (edge_evap)"
      [] trigger = "profit"    -> "EXIT (profit)"

monitor_decide_profit_through_hold(pos, current_price, hrs, fcs) ==
    LET consensus_hold == consensus_hold_for(pos, current_price, hrs, fcs)
        trigger == check_exit_triggers(pos, current_price, hrs)
    IN  IF consensus_hold /\ trigger # "profit"
        THEN [hold |-> TRUE, trigger |-> "none", action |-> "CONSENSUS HOLD"]
        ELSE [hold |-> consensus_hold, trigger |-> trigger,
              action |-> IF trigger # "none" THEN ExitAction(trigger) ELSE "HOLD"]

\* Lines 496-535: the branch taken for one position with a price.
monitor_decide(pos, current_price, hrs, fcs) ==
    LET consensus_hold == consensus_hold_for(pos, current_price, hrs, fcs)
    IN  IF consensus_hold
        THEN [hold |-> TRUE, trigger |-> "none", action |-> "CONSENSUS HOLD"]
        ELSE LET trigger == check_exit_triggers(pos, current_price, hrs)
             IN  [hold |-> FALSE, trigger |-> trigger,
                  action |-> IF trigger # "none" THEN ExitAction(trigger) ELSE "HOLD"]

NoDecision ==
    [ token |-> "", position |-> None, price |-> None, hrs |-> 0, fcs |-> None,
      hold |-> FALSE, trigger |-> "none", action |-> "", exited |-> FALSE ]

\* PositionTracker.get_active_positions: the dict's values in insertion order.
get_active_positions ==
    LET T == DOMAIN positions
    IN  IF T = {} THEN <<>>
        ELSE IF T = {"t1", "t2"} THEN <<"t1", "t2">>
        ELSE <<CHOOSE t \in T : TRUE>>

\* monitor_positions lines 415-431: snapshot of the active positions.
MonitorStart ==
    /\ mon_pc = "idle"
    /\ mon_queue' = get_active_positions
    /\ mon_snapshot' = DOMAIN positions
    /\ mon_pc' = IF DOMAIN positions = {} THEN "done" ELSE "loop"
    /\ journal' = <<>>
    /\ dec' = NoDecision
    /\ UNCHANGED <<positions, exits, holdVars, scanVars, ensVars, pureVars, runVars>>

\* Variant: a missing price ends the cycle instead of skipping the position.
MonitorSkip_ends_cycle ==
    /\ mon_pc = "loop"
    /\ mon_queue # <<>>
    /\ LET tok == Head(mon_queue)
       IN  /\ journal' = Append(journal, [token |-> tok, action |-> "SKIP (no price)"])
           /\ dec' = [NoDecision EXCEPT !.token = tok, !.position = Some(positions[tok]),
                                        !.action = "SKIP (no price)"]
    /\ mon_queue' = <<>>
    /\ mon_pc' = "done"
    /\ UNCHANGED <<positions, exits, mon_snapshot, holdVars, scanVars, ensVars, pureVars, runVars>>

\* One iteration of the loop of lines 433-439: no price for this token.
MonitorSkip ==
    /\ mon_pc = "loop"
    /\ mon_queue # <<>>
    /\ LET tok == Head(mon_queue)
       IN  /\ journal' = Append(journal, [token |-> tok, action |-> "SKIP (no price)"])
           /\ dec' = [NoDecision EXCEPT !.token = tok, !.position = Some(positions[tok]),
                                        !.action = "SKIP (no price)"]
    /\ mon_queue' = Tail(mon_queue)
    /\ mon_pc' = IF Tail(mon_queue) = <<>> THEN "done" ELSE "loop"
    /\ UNCHANGED <<positions, exits, mon_snapshot, holdVars, scanVars, ensVars, pureVars, runVars>>

\* One iteration of the loop of lines 433-539 for a token with a price;
\* execute_full_exit (early_exit_manager.py 149-216) succeeds (ok) or raises.
MonitorStep ==
    /\ mon_pc = "loop"
    /\ mon_queue # <<>>
    /\ LET tok == Head(mon_queue)
           pos == positions[tok]
       IN  \E current_price \in PricesFor(tok), fcs \in ForecastsFor(tok),
              hrs \in (IF pos.market_date = "" THEN {0} ELSE HoursFor(tok)),
              ok \in BOOLEAN :
             LET d == monitor_decide(pos, current_price, hrs, fcs)
                 exited == d.trigger # "none" /\ ok
             IN  /\ (d.trigger = "none" => ok)
                 /\ positions' = IF exited
                                 THEN [t \in DOMAIN positions \ {tok} |-> positions[t]]
                                 ELSE positions
                 /\ exits' = IF exited
                             THEN Append(exits, [token |-> tok, reason |-> d.trigger])
                             ELSE exits
                 /\ journal' = Append(journal, [token |-> tok, action |-> d.action])
                 /\ dec' = [ token |-> tok, position |-> Some(pos),
                             price |-> Some(current_price), hrs |-> hrs, fcs |-> fcs,
                             hold |-> d.hold, trigger |-> d.trigger,
                             action |-> d.action, exited |-> exited ]
    /\ mon_queue' = Tail(mon_queue)
    /\ mon_pc' = IF Tail(mon_queue) = <<>> THEN "done" ELSE "loop"
    /\ UNCHANGED <<mon_snapshot, holdVars, scanVars, ensVars, pureVars, runVars>>

HoldIdle == hold_in = None /\ hold_out = None

ScanIdle ==
    /\ open_orders = <<>>
    /\ balance_usdc = 0
    /\ live = <<>>
    /\ scan_pc = "idle"
    /\ orders_at_start = <<>>
    /\ qualifying = <<>>
    /\ scan_idx = 1
    /\ orders_placed = 0
    /\ max_new_orders = 0
    /\ pos_size = 0
    /\ existing_cids = {}
    /\ existing_event_ids = {}
    /\ outcomes = <<>>

EnsembleIdle ==
    /\ ens_pc = "idle"
    /\ ens_in = None
    /\ ens_forecast = None
    /\ ens_opps = <<>>
    /\ ens_qualified = <<>>

\* Persisted state at rest (used by every initial condition).
NoPositions == [t \in {} |-> 0]

EmptyTracker == [positions |-> NoPositions, exits |-> <<>>]

\* The files.  state is "ok" for parseable JSON, "torn" for a file truncated
\* by an interrupted write, "garbage" for content damaged outside the
\* program; trading_state.json is "none" until first written.
PositionsFile(tr) == [state |-> "ok", positions |-> tr.positions, exits |-> tr.exits]
OrdersFile(os) == [state |-> "ok", orders |-> os]
\* trading_state.json is a report that no run reads back for a decision; only
\* its readability is kept.
StateFile(tr, os) == [state |-> "ok"]

UnreadablePositions(how) == [state |-> how, positions |-> NoPositions, exits |-> <<>>]
UnreadableOrders(how) == [state |-> how, orders |-> <<>>]
UnreadableState(how) == [state |-> how]

NotLoaded ==
    [ kind |-> "", balance |-> 0, positions |-> {}, pos_unreadable |-> FALSE,
      ord_unreadable |-> FALSE, clob_queried |-> FALSE ]

RunIdle ==
    /\ pos_file = PositionsFile(EmptyTracker)
    /\ ord_file = OrdersFile(<<>>)
    /\ ts_file = UnreadableState("none")
    /\ clob = <<>>
    /\ sells = <<>>
    /\ run_pc = "off"
    /\ loaded = NotLoaded
    /\ tracker = EmptyTracker
    /\ mem_orders = <<>>
    /\ run_queue = <<>>
    /\ run_cur = ""
    /\ wr = None
    /\ run_trace = <<>>
    /\ exited_ok = {}
    /\ ttl_passed = {}
    /\ tracked = {}

\* The partial-exit policy at rest: nothing tracked, no cycle running.
NoPartialStep ==
    [ token |-> "", price |-> None, before |-> None, outcome |-> "" ]

PartialIdle ==
    /\ pe_positions = [t \in {} |-> None]
    /\ pe_exits = <<>>
    /\ pe_pc = "idle"
    /\ pe_queue = <<>>
    /\ pe_last = NoPartialStep

\* risk_manager.load_state without a state file; last_reset_date is the day
\* number of `now`.
default_state(day) ==
    [ balance |-> 10000, high_water_mark |-> 10000, session_pnl |-> 0,
      daily_pnl |-> 0, daily_trades |-> 0, hourly_trades |-> <<>>,
      weather_trades_today |-> 0, last_reset_date |-> day, trades |-> <<>> ]

NoRiskCall ==
    [ call |-> "", allowed |-> FALSE, reason |-> "", daily_pnl |-> 0,
      session_pnl |-> 0, amount |-> 0, market_type |-> "" ]

RiskIdle ==
    /\ rm_state = default_state(0)
    /\ rm_now = 0
    /\ rm_last = NoRiskCall

\* No trader placement and no order-monitor pass of the overlap study.
TraderAtRest == [pc |-> "idle", orders |-> <<>>, placed |-> 0]
MonitorAtRest == [pc |-> "off", queue |-> <<>>, orders |-> <<>>, passes |-> 0]

OverlapIdle ==
    /\ ov_file = <<>>
    /\ ov_tr = TraderAtRest
    /\ ov_om = MonitorAtRest
    /\ ov_recorded = {}

SideIdle == PartialIdle /\ RiskIdle /\ OverlapIdle

PureIdle ==
    /\ prob_in = None
    /\ prob_out = None
    /\ size_in = None
    /\ size_out = None
    /\ SideIdle

InitMonitor ==
    /\ \/ positions = [t \in {} |-> None]
       \/ \E p2 \in PositionUniverse :
            \/ positions = [t \in {"t2"} |-> p2]
            \/ \E p1 \in FirstPositions :
                 positions = [t \in {"t1", "t2"} |-> IF t = "t1" THEN p1 ELSE p2]
    /\ exits = <<>>
    /\ mon_pc = "idle"
    /\ mon_queue = <<>>
    /\ mon_snapshot = {}
    /\ journal = <<>>
    /\ dec = NoDecision
    /\ HoldIdle
    /\ ScanIdle
    /\ EnsembleIdle
    /\ PureIdle
    /\ RunIdle

NextMonitor == MonitorStart \/ MonitorSkip \/ MonitorStep

SpecMonitor == InitMonitor /\ [][NextMonitor]_vars

-----------------------------------------------------------------------------
(* check_consensus_hold applied to drawn arguments *)

MaxSources == 2

SampleLists == UNION { [1..n -> ForecastSample] : n \in 0..MaxSources }

HoldPositions ==
    [ condition_id     : {"c0"},
      side             : {"YES", "NO"},
      entry_price      : {500},
      shares           : {10},
      cost_basis       : {5000},
      original_edge    : {Some(200)},
      threshold_temp_f : {50},
      market_date      : {"iso"},
      is_us_market     : BOOLEAN ]

MonitorIdle ==
    /\ positions = [t \in {} |-> None]
    /\ exits = <<>>
    /\ mon_pc = "idle"
    /\ mon_queue = <<>>
    /\ mon_snapshot = {}
    /\ journal = <<>>
    /\ dec = NoDecision

InitHold ==
    /\ MonitorIdle
    /\ hold_in \in { Some([position |-> p, fcs |-> f, current_price |-> c, hrs |-> h]) :
                       p \in HoldPositions, f \in SampleLists,
                       c \in {470, 475}, h \in MonitorHours }
    /\ hold_out = None
    /\ ScanIdle
    /\ EnsembleIdle
    /\ PureIdle
    /\ RunIdle

\* The call of lines 489-492 on the drawn arguments.
HoldCall ==
    /\ hold_in # None
    /\ hold_out = None
    /\ LET a   == hold_in[1]
           pos == a.position
       IN  hold_out' = Some(check_consensus_hold(
                              pos,
                              prepare_forecasts_for_market(a.fcs, pos.is_us_market),
                              native_threshold(pos.threshold_temp_f, pos.is_us_market)[1],
                              pos.is_us_market, a.current_price,
                              hours_remaining_of(pos.market_date, a.hrs)))
    /\ UNCHANGED <<hold_in, monVars, scanVars, ensVars, pureVars, runVars>>

NextHold == HoldCall

SpecHold == InitHold /\ [][NextHold]_vars

-----------------------------------------------------------------------------
(* autonomous_trader_v2.py: scan_and_trade *)

\* The weather events returned by get_weather_events, in feed order, and the
\* raw markets of each (a market's slug and conditionId are both its name).
EventsFeed == <<"e1", "e2">>

EventMarkets(event_id) ==
    IF event_id = "e1" THEN <<"m1", "m2">> ELSE <<"m3", "m4">>

Markets == {"m1", "m2", "m3", "m4"}

EventOfMarket(m) == IF m \in {"m1", "m2"} THEN "e1" ELSE "e2"

\* Hours (tenths) from now to the event date (midnight UTC of the market's
\* day): event e1 resolves in 6.0 hours, event e2 in 48.0 hours.
EventHoursAway(event_id) == IF event_id = "e1" THEN 60 ELSE 480

\* YES price (mills) quoted for each market in the scanned event data.
ScanYesPrice(m) ==
    CASE m = "m1" -> 500
      [] m = "m2" -> 450
      [] m = "m3" -> 400
      [] m = "m4" -> 400

\* What one market contributes to a scan: the opportunity analyze_weather_event
\* emits for it, if any, and what get_token_price will return at execution.
MarketOptions(m) ==
    CASE m = "m1" -> {"absent", "filtered", "cheap", "pass"}
      [] m = "m2" -> {"absent", "pass", "no_token"}
      [] m = "m3" -> {"absent", "pass", "out_of_band", "low_edge", "no_side"}
      [] m = "m4" -> {"absent", "pass", "no_token"}

Feeds == { f \in [Markets -> {"absent", "filtered", "cheap", "pass", "no_token",
                              "out_of_band", "low_edge", "no_side"}] :
             \A m \in Markets : f[m] \in MarketOptions(m) }

\* weather_arb.py: the dict a get_forecast_* function returns for one source.
GlobalSample(name, h) == [source |-> name, high_c |-> h, is_local |-> FALSE]

LocalSample(name, h) == [source |-> name, high_c |-> h, is_local |-> name # "noaa"]

\* weather_arb.analyze_weather_event lines 785-830: the opportunity dict of a
\* market with forecast probability prob, YES price yes_price and confidence
\* conf; BUY NO opportunities carry the edge of the NO side.
Opportunity(m, prob, yes_price, conf, action) ==
    [ slug                     |-> m,
      forecast_prob            |-> prob,
      forecast_confidence      |-> conf,
      market_yes_price         |-> yes_price,
      market_no_price          |-> 1000 - yes_price,
      action                   |-> action,
      confidence_adjusted_edge |->
          IF action = "BUY YES"
          THEN (prob - 1000 * yes_price) * conf
          ELSE ((1000000 - prob) - 1000 * (1000 - yes_price)) * conf,
      forecast_sources         |-> <<"open_meteo", "visual_crossing", "metservice">>,
      local_source             |-> Some("metservice"),
      local_disagrees          |-> FALSE,
      liquidity                |-> 1000,
      individual_forecasts     |-> <<GlobalSample("open_meteo", 285),
                                     GlobalSample("visual_crossing", 290),
                                     LocalSample("metservice", 295)>> ]

OpportunityOf(m, option) ==
    CASE option = "absent"   -> None
      [] option = "filtered" -> Some(Opportunity(m, 900000, ScanYesPrice(m), 280, "BUY YES"))
      [] option = "cheap"    -> Some(Opportunity(m, 900000, 250, 360, "BUY YES"))
      [] option = "no_side"  -> Some(Opportunity(m, 100000, 600, 360, "BUY NO"))
      [] OTHER               -> Some(Opportunity(m, 900000, ScanYesPrice(m), 360, "BUY YES"))

LivePriceOf(m, option) ==
    CASE option = "pass"        -> Some(ScanYesPrice(m))
      [] option = "out_of_band" -> Some(750)
      [] option = "low_edge"    -> Some(700)
      [] option = "no_side"     -> Some(400)
      [] option = "cheap"       -> Some(250)
      [] OTHER                  -> None

\* Variant: the bracket count rounded down instead of up.
position_size_for_rounded_down(balance) ==
    IF balance < 10000 THEN 0
    ELSE IF balance < 100000 THEN 5000
    ELSE (balance \div 100000) * 5000

\* position_size_for (money in mills).
position_size_for(balance) ==
    IF balance < 10000 THEN 0
    ELSE IF balance < 100000 THEN 5000
    ELSE ((balance + 99999) \div 100000) * 5000

IsOpen(o) == o.status = "OPEN"

max_new_by_slots_uncapped(total_deployed) == 3

\* Lines 561-563.
max_new_by_slots(total_deployed) == Min(10 - total_deployed, 3)

\* Lines 581-583.
max_new_by_capital(balance, n_live_orders, size) ==
    LET locked_capital    == n_live_orders * size
        available_capital == balance - locked_capital - 5000
    IN  IF available_capital > 0 THEN available_capital \div size ELSE 0

below_confidence_floor_never(conf) == FALSE

\* Line 642: conf < 0.80.
below_confidence_floor(conf) == conf < 320

in_price_band_open(price) == TRUE

\* Lines 657 and 753: 0.30 <= price <= 0.70.
in_price_band(price) == 300 <= price /\ price <= 700

side_of(action) == IF action = "BUY YES" THEN "YES" ELSE "NO"

\* Lines 629-677: the entry filter on one opportunity.
passes_entry_filter(opp) ==
    LET edge        == opp.confidence_adjusted_edge
        conf        == opp.forecast_confidence
        sources     == opp.forecast_sources
        num_sources == Len(sources)
        is_us       == "noaa" \in Range(sources)
        has_local   == opp.local_source # None
        min_edge    == IF is_us \/ has_local THEN 200 ELSE 250
        side        == side_of(opp.action)
        buy_price   == IF side = "YES" THEN opp.market_yes_price ELSE opp.market_no_price
        temps       == { f.high_c : f \in Range(opp.individual_forecasts) }
    IN  /\ ~below_confidence_floor(conf)
        /\ ~opp.local_disagrees
        /\ ~(edge < min_edge * 400000)
        /\ in_price_band(buy_price)
        /\ ~(is_us /\ num_sources < 3)
        /\ ~(~is_us /\ num_sources < 2)
        /\ ~(~is_us /\ temps # {} /\ SetMax(temps) - SetMin(temps) > 10)
        /\ ~(opp.liquidity < 500)

\* Lines 679-691: conditionId of the event market whose slug is the opp's.
condition_id_of(event_id, slug) ==
    LET mk == EventMarkets(event_id)
        hits == { i \in 1..Len(mk) : mk[i] = slug }
    IN  IF hits = {} THEN None ELSE Some(mk[SetMin(hits)])

\* Lines 701-720: the candidate appended to `qualifying`.
Candidate(event_id, opp) ==
    [ condition_id  |-> condition_id_of(event_id, opp.slug)[1],
      event_id      |-> event_id,
      edge          |-> opp.confidence_adjusted_edge,
      conf          |-> opp.forecast_confidence,
      is_us         |-> "noaa" \in Range(opp.forecast_sources),
      side          |-> side_of(opp.action),
      buy_price     |-> IF side_of(opp.action) = "YES" THEN opp.market_yes_price
                                                       ELSE opp.market_no_price,
      forecast_prob |-> opp.forecast_prob,
      local_source  |-> opp.local_source ]

\* Lines 621-699 for one opportunity of one event.
qualifies(event_id, opp, cids, eids) ==
    /\ ~(EventHoursAway(event_id) < 40 \/ EventHoursAway(event_id) > 720)
    /\ passes_entry_filter(opp)
    /\ condition_id_of(event_id, opp.slug) # None
    /\ condition_id_of(event_id, opp.slug)[1] \notin cids
    /\ ~(event_id # "" /\ event_id \in eids)

FeedPairs ==
    <<[event |-> "e1", market |-> "m1"], [event |-> "e1", market |-> "m2"],
      [event |-> "e2", market |-> "m3"], [event |-> "e2", market |-> "m4"]>>

RECURSIVE collect_qualifying(_, _, _, _)
\* Lines 606-720: the loop over events and their opportunities, from pair i on.
collect_qualifying(i, feed, cids, eids) ==
    IF i > Len(FeedPairs) THEN <<>>
    ELSE LET e   == FeedPairs[i].event
             opp == OpportunityOf(FeedPairs[i].market, feed[FeedPairs[i].market])
             one == IF opp # None /\ qualifies(e, opp[1], cids, eids)
                    THEN <<Candidate(e, opp[1])>> ELSE <<>>
         IN  one \o collect_qualifying(i + 1, feed, cids, eids)

RECURSIVE insert_by_edge(_, _)
insert_by_edge(sorted, x) ==
    IF sorted = <<>> THEN <<x>>
    ELSE IF Head(sorted).edge >= x.edge
         THEN <<Head(sorted)>> \o insert_by_edge(Tail(sorted), x)
         ELSE <<x>> \o sorted

RECURSIVE sort_by_edge(_)
\* Line 722: qualifying.sort(key=edge, reverse=True), a stable sort.
sort_by_edge(q) ==
    IF q = <<>> THEN <<>>
    ELSE insert_by_edge(sort_by_edge(SubSeq(q, 1, Len(q) - 1)), q[Len(q)])

lookahead_window_no_buffer(q, max_new) == SubSeq(q, 1, Min(Len(q), max_new))

\* Line 730: qualifying[:max_new_orders * 3].
lookahead_window(q, max_new) == SubSeq(q, 1, Min(Len(q), max_new * 3))

\* Lines 745-768: live re-validation of one candidate against the token data
\* get_token_price returned (None, or the fresh price).
revalidate(c, token_price) ==
    IF token_price = None THEN "no_token"
    ELSE LET fresh_price   == token_price[1]
             fp            == c.forecast_prob
             \* fresh_edge = (fp - fresh_price) * 100 * conf, in both branches
             fresh_edge    == (fp - 1000 * fresh_price) * c.conf
             live_min_edge == IF c.is_us \/ c.local_source # None THEN 200 ELSE 250
         IN  IF ~in_price_band(fresh_price) THEN "price"
             ELSE IF fresh_edge < live_min_edge * 400000 THEN "edge"
             ELSE "ok"

\* Lines 788-809: the record appended to open_orders.json.
order_record(c, fresh_price, size, order_id) ==
    [ order_id     |-> order_id,
      condition_id |-> c.condition_id,
      event_id     |-> c.event_id,
      side         |-> c.side,
      price        |-> fresh_price,
      amount       |-> size,
      status       |-> "OPEN" ]

\* Lines 557-722: capacity and capital checks, existing-exposure sets, the
\* weather scan, the entry filter and the ranking.
ScanStart ==
    /\ scan_pc = "idle"
    /\ LET live_orders    == SelectSeq(open_orders, IsOpen)
           total_deployed == Cardinality(DOMAIN positions) + Len(live_orders)
           by_slots       == max_new_by_slots(total_deployed)
           size           == position_size_for(balance_usdc)
           by_capital     == IF size = 0 THEN 0
                             ELSE max_new_by_capital(balance_usdc, Len(live_orders), size)
           final_max      == Min(by_slots, by_capital)
           cids == { positions[t].condition_id : t \in DOMAIN positions }
                     \cup { live_orders[i].condition_id : i \in 1..Len(live_orders) }
           \* getattr(p, 'event_id', ''): Position has no event_id field
           eids == { "" : t \in DOMAIN positions }
       IN  IF by_slots <= 0 \/ size = 0 \/ final_max <= 0
           THEN /\ scan_pc' = "done"
                /\ UNCHANGED <<live, qualifying, max_new_orders, pos_size,
                               existing_cids, existing_event_ids>>
           ELSE \E feed \in Feeds :
                /\ scan_pc' = "place"
                /\ live' = [m \in Markets |-> LivePriceOf(m, feed[m])]
                /\ qualifying' = sort_by_edge(collect_qualifying(1, feed, cids, eids))
                /\ max_new_orders' = final_max
                /\ pos_size' = size
                /\ existing_cids' = cids
                /\ existing_event_ids' = eids
    /\ orders_at_start' = open_orders
    /\ scan_idx' = 1
    /\ orders_placed' = 0
    /\ outcomes' = <<>>
    /\ UNCHANGED <<open_orders, balance_usdc, monVars, holdVars, ensVars, pureVars, runVars>>

LoopActive ==
    /\ scan_pc = "place"
    /\ scan_idx <= Len(lookahead_window(qualifying, max_new_orders))
    /\ orders_placed < max_new_orders

\* get_balance during the loop: unchanged, or lowered by a fill of one unit.
LiveBalances == {balance_usdc, balance_usdc - pos_size}

Needed == (orders_placed + 1) * pos_size + 5000

\* Lines 738-743: the live balance re-check fails and the loop breaks.
ScanBalanceBreak ==
    /\ LoopActive
    /\ \E bal_now \in LiveBalances : bal_now < Needed
    /\ outcomes' = Append(outcomes, "balance")
    /\ scan_pc' = "done"
    /\ UNCHANGED <<open_orders, balance_usdc, live, orders_at_start, qualifying, scan_idx,
                   orders_placed, max_new_orders, pos_size, existing_cids,
                   existing_event_ids, monVars, holdVars, ensVars, pureVars, runVars>>

\* Lines 745-768: re-validation fails, the candidate is skipped (continue).
ScanRevalidationSkip ==
    /\ LoopActive
    /\ \E bal_now \in LiveBalances : ~(bal_now < Needed)
    /\ LET c == qualifying[scan_idx]
           r == revalidate(c, live[c.condition_id])
       IN  /\ r # "ok"
           /\ outcomes' = Append(outcomes, r)
    /\ scan_idx' = scan_idx + 1
    /\ UNCHANGED <<open_orders, balance_usdc, live, scan_pc, orders_at_start, qualifying,
                   orders_placed, max_new_orders, pos_size, existing_cids,
                   existing_event_ids, monVars, holdVars, ensVars, pureVars, runVars>>

\* Lines 770-819: the order is posted and recorded.
ScanOrderPlaced ==
    /\ LoopActive
    /\ \E bal_now \in LiveBalances : ~(bal_now < Needed)
    /\ LET c == qualifying[scan_idx]
       IN  /\ revalidate(c, live[c.condition_id]) = "ok"
           /\ open_orders' = Append(open_orders,
                                    order_record(c, live[c.condition_id][1], pos_size,
                                                 Len(open_orders) + 1))
           /\ existing_cids' = existing_cids \cup {c.condition_id}
           /\ existing_event_ids' = existing_event_ids \cup {c.event_id}
    /\ orders_placed' = orders_placed + 1
    /\ outcomes' = Append(outcomes, "placed")
    /\ scan_idx' = scan_idx + 1
    /\ UNCHANGED <<balance_usdc, live, scan_pc, orders_at_start, qualifying,
                   max_new_orders, pos_size, monVars, holdVars, ensVars, pureVars, runVars>>

\* Lines 821-827: create_order / post_order raises; a geo-block stops the loop.
ScanOrderFailed ==
    /\ LoopActive
    /\ \E bal_now \in LiveBalances : ~(bal_now < Needed)
    /\ LET c == qualifying[scan_idx]
       IN  revalidate(c, live[c.condition_id]) = "ok"
    /\ \E geo \in BOOLEAN :
         /\ outcomes' = Append(outcomes, IF geo THEN "geo_block" ELSE "submit_error")
         /\ scan_pc' = IF geo THEN "done" ELSE "place"
         /\ scan_idx' = IF geo THEN scan_idx ELSE scan_idx + 1
    /\ UNCHANGED <<open_orders, balance_usdc, live, orders_at_start, qualifying,
                   orders_placed, max_new_orders, pos_size, existing_cids,
                   existing_event_ids, monVars, holdVars, ensVars, pureVars, runVars>>

\* Lines 730-732 and 831-844: the loop ends, the scan summary is journalled.
ScanFinish ==
    /\ scan_pc = "place"
    /\ ~LoopActive
    /\ scan_pc' = "done"
    /\ UNCHANGED <<open_orders, balance_usdc, live, orders_at_start, qualifying, scan_idx,
                   orders_placed, max_new_orders, pos_size, existing_cids,
                   existing_event_ids, outcomes, monVars, holdVars, ensVars, pureVars, runVars>>

ScanPosition(cid) ==
    [ condition_id |-> cid, side |-> "YES", entry_price |-> 500, shares |-> 10,
      cost_basis |-> 5000, original_edge |-> Some(300), threshold_temp_f |-> 50,
      market_date |-> "iso", is_us_market |-> FALSE ]

Fillers == <<"f1", "f2", "f3", "f4", "f5", "f6", "f7", "f8", "f9", "f10">>

\* Tracker and order file as a scan can find them: k positions on markets
\* outside the feed, possibly one on feed market m1, and no or one earlier
\* order on m3, placed at the 5 or the 10 USD size tier.
InitScan ==
    /\ \E k \in {0, 8, 9, 10}, held \in BOOLEAN :
         positions = [ t \in { Fillers[i] : i \in 1..k } \cup (IF held THEN {"t1"} ELSE {})
                         |-> IF t = "t1" THEN ScanPosition("m1") ELSE ScanPosition(t) ]
    /\ open_orders \in
         { <<>>,
           << [ order_id |-> 1, condition_id |-> "m3", event_id |-> "e2", side |-> "YES",
                price |-> 400, amount |-> 10000, status |-> "OPEN" ] >>,
           << [ order_id |-> 1, condition_id |-> "m3", event_id |-> "e2", side |-> "YES",
                price |-> 400, amount |-> 5000, status |-> "CANCELLED" ] >> }
    /\ balance_usdc \in {9000, 12000, 20000, 150000}
    /\ live = <<>>
    /\ scan_pc = "idle"
    /\ orders_at_start = <<>>
    /\ qualifying = <<>>
    /\ scan_idx = 1
    /\ orders_placed = 0
    /\ max_new_orders = 0
    /\ pos_size = 0
    /\ existing_cids = {}
    /\ existing_event_ids = {}
    /\ outcomes = <<>>
    /\ exits = <<>>
    /\ mon_pc = "idle"
    /\ mon_queue = <<>>
    /\ mon_snapshot = {}
    /\ journal = <<>>
    /\ dec = NoDecision
    /\ HoldIdle
    /\ EnsembleIdle
    /\ PureIdle
    /\ RunIdle

NextScan ==
    \/ ScanStart
    \/ ScanBalanceBreak
    \/ ScanRevalidationSkip
    \/ ScanOrderPlaced
    \/ ScanOrderFailed
    \/ ScanFinish

SpecScan == InitScan /\ [][NextScan]_vars

-----------------------------------------------------------------------------
(* weather_arb.py: get_ensemble_forecast, calculate_probability,           *)
(* analyze_weather_event, followed by the entry filter of scan_and_trade   *)

RECURSIVE SumSeq(_)
SumSeq(seq) == IF seq = <<>> THEN 0 ELSE Head(seq) + SumSeq(Tail(seq))

Abs(x) == IF x < 0 THEN -x ELSE x

\* Lines 401-416: the national source fetched for the event, if any.
local_source_fetched(is_us, local_source) ==
    IF is_us THEN Some("noaa")
    ELSE IF local_source \in {Some("metservice"), Some("bom"), Some("kma")} THEN local_source
    ELSE None

source_weight_equal(is_us, local_name, src) == 1

\* Lines 423-441: the weight map w, in twentieths; 0 for a source not in it.
source_weight(is_us, local_name, src) ==
    IF is_us
    THEN CASE src = "noaa"            -> 8
           [] src = "visual_crossing" -> 7
           [] src = "open_meteo"      -> 5
           [] OTHER                   -> 0
    ELSE IF local_name # None
    THEN CASE src = local_name[1]     -> 10
           [] src = "open_meteo"      -> 5
           [] src = "visual_crossing" -> 5
           [] OTHER                   -> 0
    ELSE CASE src = "open_meteo"      -> 10
           [] src = "visual_crossing" -> 10
           [] OTHER                   -> 0

spread_confidence_lone_trusted(n, high_spread) ==
    IF n >= 2 THEN Max(120, Min(380, 450 - 5 * high_spread)) ELSE 380

spread_confidence_steep(n, high_spread) ==
    IF n >= 2 THEN Max(120, Min(380, 500 - 10 * high_spread)) ELSE 240

\* Lines 463-470: confidence from the number of sources and the spread of
\* their highs (tenths of a degree): 1.0 - (spread - 1) / 8 clamped to
\* [0.3, 0.95], plus 0.1 up to 0.98 for three sources within 2 degrees.
spread_confidence(n, high_spread) ==
    IF n >= 2
    THEN LET confidence == Max(120, Min(380, 450 - 5 * high_spread))
         IN  IF n = 3 /\ high_spread <= 20 THEN Min(392, confidence + 40) ELSE confidence
    ELSE 240

disagreement_cap_missing(confidence, local_disagrees) == confidence

\* Lines 491-492.
disagreement_cap(confidence, local_disagrees) ==
    IF local_disagrees THEN Min(confidence, 200) ELSE confidence

\* get_ensemble_forecast, given what the three source fetches returned
\* (None, or the high in tenths of a degree Celsius).  The weighted high is
\* the fraction high_num / (10 * high_den) degrees Celsius.
get_ensemble_forecast(is_us, local_source, om, vc, loc) ==
    LET global_forecasts ==
            (IF om # None THEN <<GlobalSample("open_meteo", om[1])>> ELSE <<>>)
            \o (IF vc # None THEN <<GlobalSample("visual_crossing", vc[1])>> ELSE <<>>)
        fetched        == local_source_fetched(is_us, local_source)
        local_forecast == IF fetched # None /\ loc # None
                          THEN Some(LocalSample(fetched[1], loc[1])) ELSE None
        all_forecasts  == global_forecasts
                          \o (IF local_forecast # None THEN <<local_forecast[1]>> ELSE <<>>)
        local_name     == IF local_forecast # None THEN Some(local_forecast[1].source) ELSE None
        n              == Len(all_forecasts)
        w(f)           == source_weight(is_us, local_name, f.source)
        configured     == SumSeq([i \in 1..n |-> w(all_forecasts[i])])
        \* lines 446-449: no configured weight at all, every source weighs 1
        weight(f)      == IF configured = 0 THEN 20 ELSE w(f)
        total_weight   == IF configured = 0 THEN 20 * Len(all_forecasts) ELSE configured
        weighted(f)    == f.high_c * weight(f)
        high_c_values  == { f.high_c : f \in Range(all_forecasts) }
        high_spread    == SetMax(high_c_values) - SetMin(high_c_values)
        confidence     == spread_confidence(n, high_spread)
        \* abs(local - mean(global)) > 2.0, multiplied by len(global_forecasts)
        local_disagrees ==
            /\ local_forecast # None
            /\ global_forecasts # <<>>
            /\ Abs(local_forecast[1].high_c * Len(global_forecasts)
                   - SumSeq([i \in 1..Len(global_forecasts) |-> global_forecasts[i].high_c]))
               > 20 * Len(global_forecasts)
    IN  IF all_forecasts = <<>> THEN None
        ELSE Some([ high_num        |-> SumSeq([i \in 1..n |-> weighted(all_forecasts[i])]),
                    high_den        |-> total_weight,
                    confidence      |-> disagreement_cap(confidence, local_disagrees),
                    sources         |-> [i \in 1..n |-> all_forecasts[i].source],
                    source_count    |-> n,
                    spread_c        |-> IF n >= 2 THEN Some(high_spread) ELSE None,
                    individual      |-> all_forecasts,
                    local_disagrees |-> local_disagrees ])

\* Variant: the 0.05 plateau closed at exactly one adjusted deviation below.
calculate_probability_lower_closed(num, den, temp9, is_or_below, is_or_higher, confidence) ==
    LET dd     == 90 * den
        sn     == 3 * (600 - confidence)
        up     == 9 * num - 10 * den * temp9
        dn     == IF is_or_below THEN -up ELSE up
        rd     == 27 * den * (600 - confidence)
        whole  == (32000 * dn) \div rd
        rest   == (32000 * dn) % rd
        ramp   == 500000 + 1000 * whole + (1000 * rest) \div rd
        prob   == IF is_or_below \/ is_or_higher
                  THEN IF dn * 800 >= sn * dd THEN 900000
                       ELSE IF dn >= 0 THEN ramp
                       ELSE IF dn * 800 > -(sn * dd) THEN ramp
                       ELSE 50000
                  ELSE IF 2 * Abs(up) <= dd THEN 450000
                       ELSE IF Abs(up) <= dd THEN 300000
                       ELSE IF Abs(up) * 800 <= sn * dd THEN 150000
                       ELSE 50000
    IN  Max(20000, Min(980000, prob))

\* Variant: the linear ramp with neither plateau nor clamp.
calculate_probability_linear(num, den, temp9, is_or_below, is_or_higher, confidence) ==
    LET up     == 9 * num - 10 * den * temp9
        dn     == IF is_or_below THEN -up ELSE up
        rd     == 27 * den * (600 - confidence)
        whole  == (32000 * dn) \div rd
        rest   == (32000 * dn) % rd
    IN  500000 + 1000 * whole + (1000 * rest) \div rd

\* calculate_probability, in millionths.  The forecast is num / (10 * den) degrees,
\* the bucket temperature temp9 / 9 degrees, so the difference is
\* dn / (90 * den) degrees; the adjusted standard deviation
\* 1.5 * (1.5 - confidence) is 3 * (600 - confidence) / 800 degrees.
calculate_probability(num, den, temp9, is_or_below, is_or_higher, confidence) ==
    LET dd     == 90 * den
        sn     == 3 * (600 - confidence)
        up     == 9 * num - 10 * den * temp9
        dn     == IF is_or_below THEN -up ELSE up
        \* 0.50 + (diff / adjusted_std) * 0.40, by long division
        \* (the quotient 320000 * dn / (dd * sn), reduced by 10)
        rd     == 27 * den * (600 - confidence)
        whole  == (32000 * dn) \div rd
        rest   == (32000 * dn) % rd
        ramp   == 500000 + 1000 * whole + (1000 * rest) \div rd
        prob   == IF is_or_below \/ is_or_higher
                  THEN IF dn * 800 >= sn * dd THEN 900000
                       ELSE IF dn >= 0 THEN ramp
                       ELSE IF dn * 800 >= -(sn * dd) THEN ramp
                       ELSE 50000
                  ELSE IF 2 * Abs(up) <= dd THEN 450000
                       ELSE IF Abs(up) <= dd THEN 300000
                       ELSE IF Abs(up) * 800 <= sn * dd THEN 150000
                       ELSE 50000
    IN  Max(20000, Min(980000, prob))

\* analyze_weather_event lines 761-826 for one market of the event: the
\* opportunity appended for it, or nothing.
analyze_market(event, forecast, market) ==
    IF market.yes_price = None \/ market.temp_value = None THEN <<>>
    ELSE LET f       == forecast
             temp9   == IF event.is_celsius THEN 9 * market.temp_value[1]
                                            ELSE 5 * (market.temp_value[1] - 32)
             prob    == calculate_probability(f.high_num, f.high_den, temp9,
                                              market.is_or_below, market.is_or_higher,
                                              f.confidence)
             yes     == market.yes_price[1]
             \* 0.03 * (1.5 - confidence), times 400 millionths
             margin  == 30000 * (600 - f.confidence)
             action  == IF 400 * prob > 400000 * yes + margin THEN "BUY YES"
                        ELSE IF 400 * (1000000 - prob) > 400000 * (1000 - yes) + margin
                        THEN "BUY NO"
                        ELSE ""
             edge    == IF action = "BUY YES" THEN prob - 1000 * yes
                                              ELSE (1000000 - prob) - 1000 * (1000 - yes)
         IN  IF yes <= 0 \/ action = "" THEN <<>>
             ELSE << [ slug                     |-> market.slug,
                       forecast_prob            |-> prob,
                       forecast_confidence      |-> f.confidence,
                       market_yes_price         |-> yes,
                       market_no_price          |-> market.no_price,
                       action                   |-> action,
                       confidence_adjusted_edge |-> edge * f.confidence,
                       forecast_sources         |-> f.sources,
                       local_source             |-> event.local_source,
                       local_disagrees          |-> f.local_disagrees,
                       liquidity                |-> market.liquidity,
                       individual_forecasts     |-> f.individual ] >>

RECURSIVE analyze_markets(_, _, _)
analyze_markets(event, forecast, markets) ==
    IF markets = <<>> THEN <<>>
    ELSE analyze_market(event, forecast, Head(markets))
         \o analyze_markets(event, forecast, Tail(markets))

\* analyze_weather_event.
analyze_weather_event(event, om, vc, loc) ==
    LET forecast == get_ensemble_forecast(event.is_us, event.local_source, om, vc, loc)
    IN  IF forecast = None THEN <<>>
        ELSE analyze_markets(event, forecast[1], event.markets)

\* Highs a source may report, tenths of a degree Celsius.
EnsembleHighs == {260, 280, 285, 290, 295, 310, 315}

Responses == {None} \cup { Some(h) : h \in EnsembleHighs }

Market(slug, temp, below, higher, yes) ==
    [ slug |-> slug, temp_value |-> Some(temp), is_or_below |-> below,
      is_or_higher |-> higher, yes_price |-> Some(yes), no_price |-> 1000 - yes,
      liquidity |-> 1000 ]

\* A market whose outcomePrices could not be parsed (parse_weather_event 665-667).
UnpricedMarket ==
    [ slug |-> "unpriced", temp_value |-> Some(30), is_or_below |-> FALSE,
      is_or_higher |-> FALSE, yes_price |-> None, no_price |-> 0, liquidity |-> 1000 ]

CelsiusMarkets ==
    { Market("higher27", 27, FALSE, TRUE, 400), Market("higher27", 27, FALSE, TRUE, 650),
      Market("below29", 29, TRUE, FALSE, 580), Market("exact29", 29, FALSE, FALSE, 350) }

FahrenheitMarkets ==
    { Market("higher77", 77, FALSE, TRUE, 400), Market("higher82", 82, FALSE, TRUE, 650),
      Market("below84", 84, TRUE, FALSE, 600) }

\* Parsed events (parse_weather_event 683-694) over the city table
\* WEATHER_CITIES: a US city, a city with a national source, a city without.
EnsembleEvents ==
    { [ is_us |-> TRUE, local_source |-> Some("noaa"), is_celsius |-> FALSE,
        markets |-> <<m, UnpricedMarket>> ] : m \in FahrenheitMarkets }
    \cup { [ is_us |-> FALSE, local_source |-> ls, is_celsius |-> TRUE,
             markets |-> <<UnpricedMarket, m>> ] :
             ls \in {Some("metservice"), None}, m \in CelsiusMarkets }

InitEnsemble ==
    /\ ens_pc = "idle"
    /\ ens_in \in { Some([event |-> e, om |-> o, vc |-> v, loc |-> l]) :
                      e \in EnsembleEvents, o \in Responses, v \in Responses,
                      l \in Responses }
    /\ ens_forecast = None
    /\ ens_opps = <<>>
    /\ ens_qualified = <<>>
    /\ MonitorIdle
    /\ HoldIdle
    /\ ScanIdle
    /\ PureIdle
    /\ RunIdle

\* scan_and_trade line 626: analyze_weather_event(parsed).
AnalyzeEvent ==
    /\ ens_pc = "idle"
    /\ ens_in # None
    /\ LET a == ens_in[1]
       IN  /\ ens_forecast' = get_ensemble_forecast(a.event.is_us, a.event.local_source,
                                                    a.om, a.vc, a.loc)
           /\ ens_opps' = analyze_weather_event(a.event, a.om, a.vc, a.loc)
    /\ ens_pc' = "analyzed"
    /\ UNCHANGED <<ens_in, ens_qualified, monVars, holdVars, scanVars,
                   pureVars, runVars>>

\* scan_and_trade lines 628-677: the entry filter over the opportunities.
FilterOpportunities ==
    /\ ens_pc = "analyzed"
    /\ ens_qualified' = SelectSeq(ens_opps, passes_entry_filter)
    /\ ens_pc' = "filtered"
    /\ UNCHANGED <<ens_in, ens_forecast, ens_opps, monVars, holdVars, scanVars,
                   pureVars, runVars>>

NextEnsemble == AnalyzeEvent \/ FilterOpportunities

SpecEnsemble == InitEnsemble /\ [][NextEnsemble]_vars

-----------------------------------------------------------------------------
(* calculate_probability applied to drawn arguments *)

\* Forecast highs in quarter degrees Celsius (25.0 .. 31.0): binary fractions,
\* so the differences and the three adjusted deviations that are binary
\* fractions (2.25, 1.5, 0.75 degrees at confidence 0, 0.5, 1) are exact in
\* floating point and the boundary cases diff = +/- adjusted_std occur.
ProbForecasts == 100..124

\* Bucket temperatures, whole degrees Celsius.
ProbThresholds == {27, 29}

ProbDirections == {"or_below", "or_higher", "exact"}

\* Confidence in 1/400: 0, 0.5, 0.8, 1.
ProbConfidences == {0, 200, 320, 400}

InitProbability ==
    /\ prob_in \in { Some([forecast_q |-> q, temp_c |-> t, direction |-> d,
                           confidence |-> c]) :
                       q \in ProbForecasts, t \in ProbThresholds,
                       d \in ProbDirections, c \in ProbConfidences }
    /\ prob_out = None
    /\ size_in = None
    /\ size_out = None
    /\ SideIdle
    /\ MonitorIdle
    /\ HoldIdle
    /\ ScanIdle
    /\ EnsembleIdle
    /\ RunIdle

\* The call of analyze_weather_event lines 773-779 on the drawn arguments; a
\* forecast of q quarter degrees is 5q / (10 * 2) degrees.
ProbabilityCall ==
    /\ prob_in # None
    /\ prob_out = None
    /\ LET a == prob_in[1]
       IN  prob_out' = Some(calculate_probability(5 * a.forecast_q, 2, 9 * a.temp_c,
                                                  a.direction = "or_below",
                                                  a.direction = "or_higher",
                                                  a.confidence))
    /\ UNCHANGED <<prob_in, size_in, size_out, sideVars, monVars, holdVars, scanVars,
                   ensVars, runVars>>

NextProbability == ProbabilityCall

SpecProbability == InitProbability /\ [][NextProbability]_vars

-----------------------------------------------------------------------------
(* position_size_for applied to drawn balances *)

\* Balances in mills: negative, zero, either side of the 10 USD floor and of
\* the 100, 200 and 300 USD bracket edges, and a large one.
SizingBalances ==
    {-1000, 0, 9990, 10000, 50000, 99990, 100000, 100010, 150000, 200000, 200010,
     300000, 1000000}

InitSizing ==
    /\ size_in \in { Some(<<b1, b2>>) : b1 \in SizingBalances, b2 \in SizingBalances }
    /\ size_out = None
    /\ prob_in = None
    /\ prob_out = None
    /\ SideIdle
    /\ MonitorIdle
    /\ HoldIdle
    /\ ScanIdle
    /\ EnsembleIdle
    /\ RunIdle

\* The call of scan_and_trade line 575 on each of the two drawn balances.
SizingCall ==
    /\ size_in # None
    /\ size_out = None
    /\ size_out' = Some(<<position_size_for(size_in[1][1]),
                          position_size_for(size_in[1][2])>>)
    /\ UNCHANGED <<size_in, prob_in, prob_out, sideVars, monVars, holdVars, scanVars,
                   ensVars, runVars>>

NextSizing == SizingCall

SpecSizing == InitSizing /\ [][NextSizing]_vars

-----------------------------------------------------------------------------
(* trader-backup-20260218 early_exit_manager.py: the partial-exit policy *)

(***************************************************************************)
(* Units of this section: prices in mills, shares in eighths of a share,   *)
(* money (cost_basis, cost_recovered) in 1/8000 USD, so that shares times  *)
(* price is money.  Every halving and every division below is exact on the *)
(* drawn inputs, as it is in floating point on the corresponding values.   *)
(***************************************************************************)

PartialTokens == {"p1", "p2"}

\* Positions as add_position receives them.  cost_basis is shares times
\* entry_price for an imported position (import_existing_positions.py) and
\* may exceed it when it is the order amount.
PartialPositions ==
    { [ entry_price |-> 150, shares |-> 80, cost_basis |-> 80 * 150 ],
      [ entry_price |-> 150, shares |-> 80, cost_basis |-> 80 * 150 + 800 ],
      [ entry_price |-> 300, shares |-> 40, cost_basis |-> 40 * 300 ] }

\* Prices get_token_price_func can return, either side of twice each entry
\* price a position can come to have.
PartialPrices == {299, 300, 600, 639, 640}

check_exit_trigger_early(position, current_price) ==
    2 * current_price >= 3 * position.entry_price

\* check_exit_trigger: current_price >= position.entry_price * 2.0.
check_exit_trigger(position, current_price) ==
    current_price >= position.entry_price * 2

\* PositionTracker.update_position_after_exit (shares_remaining > 0 on every
\* position of this section; save_state rewrites the file from the result).
update_position_after_exit(tr, token_id, shares_remaining) ==
    IF token_id \in DOMAIN tr
    THEN [tr EXCEPT ![token_id] =
            [ entry_price |-> IF shares_remaining > 0
                              THEN @.cost_basis \div shares_remaining
                              ELSE @.entry_price,
              shares      |-> shares_remaining,
              cost_basis  |-> @.cost_basis ]]
    ELSE tr

\* The EarlyExit record built by execute_early_exit.
EarlyExit(token_id, position, current_price) ==
    LET shares_to_sell == position.shares \div 2
    IN  [ token_id         |-> token_id,
          entry_price      |-> position.entry_price,
          exit_price       |-> current_price,
          total_shares     |-> position.shares,
          shares_sold      |-> shares_to_sell,
          shares_remaining |-> position.shares - shares_to_sell,
          cost_recovered   |-> shares_to_sell * current_price ]

\* PositionTracker.get_active_positions: the dict's values in insertion order.
partial_active_positions(tr) ==
    IF DOMAIN tr = {} THEN <<>>
    ELSE IF DOMAIN tr = {"p1", "p2"} THEN <<"p1", "p2">>
    ELSE <<CHOOSE t \in DOMAIN tr : TRUE>>

\* monitor_and_exit up to its loop: an empty tracker returns at once.
PartialStart ==
    /\ pe_pc = "idle"
    /\ DOMAIN pe_positions # {}
    /\ pe_pc' = "loop"
    /\ pe_queue' = partial_active_positions(pe_positions)
    /\ pe_last' = NoPartialStep
    /\ UNCHANGED <<pe_positions, pe_exits, prob_in, prob_out, size_in, size_out,
                   riskVars, overlapVars, monVars, holdVars, scanVars, ensVars, runVars>>

\* One iteration of the loop of monitor_and_exit: the price fetch returns
\* None or raises, or the trigger is tested and, when met, execute_early_exit
\* either fails in create/post (returns None, nothing recorded) or records
\* the exit and updates the position.  The last iteration ends the cycle.
PartialStep ==
    /\ pe_pc = "loop"
    /\ pe_queue # <<>>
    /\ LET tok == Head(pe_queue)
           pos == pe_positions[tok]
       IN  \E fetch \in {"none", "error", "price"}, fetched \in PartialPrices,
              order_ok \in BOOLEAN :
             /\ \/ /\ fetch \in {"none", "error"}
                   /\ order_ok
                   /\ pe_last' = [ token |-> tok, price |-> None, before |-> Some(pos),
                                   outcome |-> IF fetch = "none" THEN "no_price"
                                               ELSE "price_error" ]
                   /\ UNCHANGED <<pe_positions, pe_exits>>
                \/ /\ fetch = "price"
                   /\ ~check_exit_trigger(pos, fetched)
                   /\ order_ok
                   /\ pe_last' = [ token |-> tok, price |-> Some(fetched),
                                   before |-> Some(pos), outcome |-> "not_yet" ]
                   /\ UNCHANGED <<pe_positions, pe_exits>>
                \/ /\ fetch = "price"
                   /\ check_exit_trigger(pos, fetched)
                   /\ ~order_ok
                   /\ pe_last' = [ token |-> tok, price |-> Some(fetched),
                                   before |-> Some(pos), outcome |-> "exit_failed" ]
                   /\ UNCHANGED <<pe_positions, pe_exits>>
                \/ /\ fetch = "price"
                   /\ check_exit_trigger(pos, fetched)
                   /\ order_ok
                   /\ LET exit == EarlyExit(tok, pos, fetched)
                      IN  /\ pe_exits' = Append(pe_exits, exit)
                          /\ pe_positions' = update_position_after_exit(
                                                 pe_positions, tok, exit.shares_remaining)
                   /\ pe_last' = [ token |-> tok, price |-> Some(fetched),
                                   before |-> Some(pos), outcome |-> "partial_exit" ]
    /\ pe_queue' = Tail(pe_queue)
    /\ pe_pc' = IF Tail(pe_queue) = <<>> THEN "idle" ELSE "loop"
    /\ UNCHANGED <<prob_in, prob_out, size_in, size_out,
                   riskVars, overlapVars, monVars, holdVars, scanVars, ensVars, runVars>>

InitPartial ==
    /\ \E held \in (SUBSET PartialTokens) \ {{}} :
         pe_positions \in [held -> PartialPositions]
    /\ pe_exits = <<>>
    /\ pe_pc = "idle"
    /\ pe_queue = <<>>
    /\ pe_last = NoPartialStep
    /\ RiskIdle
    /\ OverlapIdle
    /\ prob_in = None
    /\ prob_out = None
    /\ size_in = None
    /\ size_out = None
    /\ MonitorIdle
    /\ HoldIdle
    /\ ScanIdle
    /\ EnsembleIdle
    /\ RunIdle

NextPartial ==
    \/ PartialStart
    \/ PartialStep

SpecPartial == InitPartial /\ [][NextPartial]_vars

-----------------------------------------------------------------------------
(* polymarket-trader/scripts/risk_manager.py *)

(***************************************************************************)
(* Units of this section: money in whole USD; time in ticks of 20 minutes  *)
(* since midnight of day 0.  Timestamps are ISO strings in the program and *)
(* are compared as strings; the order of two such strings is the order of  *)
(* their times, so the model compares ticks.  The state dict is passed by  *)
(* the caller and saved to the state file by each call that changes it.    *)
(***************************************************************************)

TicksPerHour == 3
TicksPerDay == 24 * TicksPerHour

MAX_TRADES_PER_HOUR == 2
MAX_DAILY_LOSS == 100
SESSION_LOSS_STOP == 50
MAX_TRADES_PER_SESSION == 10
MAX_WEATHER_MARKETS_PER_DAY == 3

\* The clock starts at 22:40 of day 0 and is followed up to RiskMaxNow.
RiskStart == TicksPerDay - 2
RiskMaxNow == 74
\* Trades recorded and accumulated P&L (absolute) are followed up to these.
RiskMaxTrades == 3
RiskMaxPnl == 100

RiskAmounts == {50, 60}
RiskMarketTypes == {"general", "weather"}
RiskPnls == {-100, -50, 50, 100}

day_of(now) == now \div TicksPerDay

\* get_max_bet: 5 USD per started 100 USD of balance, 55 from 1000 USD on.
get_max_bet(balance) ==
    IF balance >= 1000 THEN 55
    ELSE IF balance >= 0 THEN 5 * (balance \div 100 + 1)
    ELSE 55

\* check_can_trade lines 111-119: the daily reset.
daily_reset(state, now) ==
    IF state.last_reset_date # day_of(now)
    THEN [state EXCEPT !.daily_pnl = 0, !.daily_trades = 0,
                       !.weather_trades_today = 0, !.hourly_trades = <<>>,
                       !.session_pnl = 0, !.last_reset_date = day_of(now)]
    ELSE state

\* Line 155: the timestamps later than one hour ago.
IsRecent(t) == t > rm_now - TicksPerHour
recent_trades(hourly_trades) == SelectSeq(hourly_trades, IsRecent)

\* Line 138: abs(daily_pnl) >= MAX_DAILY_LOSS.
daily_loss_reached(pnl) == Abs(pnl) >= MAX_DAILY_LOSS

\* Lines 155-156 applied to a state after its reset.
prune_hourly(state) ==
    [state EXCEPT !.hourly_trades = recent_trades(@)]

\* check_can_trade: the returned reason ("" when allowed) for the state after
\* the reset.
check_reason(state, amount, market_type) ==
    IF state.balance <= 0 THEN "balance"
    ELSE IF amount > get_max_bet(state.balance) THEN "max_bet"
    ELSE IF daily_loss_reached(state.daily_pnl) THEN "daily_loss"
    ELSE IF Abs(state.session_pnl) >= SESSION_LOSS_STOP THEN "session_loss"
    ELSE IF Len(recent_trades(state.hourly_trades)) >= MAX_TRADES_PER_HOUR
         THEN "hourly"
    ELSE IF state.daily_trades >= MAX_TRADES_PER_SESSION THEN "session_trades"
    ELSE IF market_type = "weather"
            /\ state.weather_trades_today >= MAX_WEATHER_MARKETS_PER_DAY
         THEN "weather"
    ELSE ""

\* check_can_trade: the state it leaves behind.  hourly_trades is pruned only
\* when the call gets as far as check 5.
check_state(state, amount, market_type) ==
    IF check_reason(state, amount, market_type)
         \in {"balance", "max_bet", "daily_loss", "session_loss"}
    THEN state
    ELSE prune_hourly(state)

\* check_can_trade(state, amount, market_type).
RiskCheck ==
    /\ \E amount \in RiskAmounts, market_type \in RiskMarketTypes :
         LET reset  == daily_reset(rm_state, rm_now)
             reason == check_reason(reset, amount, market_type)
         IN  /\ rm_state' = check_state(reset, amount, market_type)
             /\ rm_last' = [ call |-> "check", allowed |-> reason = "",
                             reason |-> reason, daily_pnl |-> reset.daily_pnl,
                             session_pnl |-> reset.session_pnl,
                             amount |-> amount, market_type |-> market_type ]
    /\ UNCHANGED <<rm_now, partialVars, overlapVars, prob_in, prob_out, size_in, size_out,
                   monVars, holdVars, scanVars, ensVars, runVars>>

\* record_trade(state, trade) for the trade that the last check allowed.
RiskRecordTrade ==
    /\ rm_last.call = "check"
    /\ rm_last.allowed
    /\ Len(rm_state.trades) < RiskMaxTrades
    /\ rm_state' =
           [rm_state EXCEPT
              !.hourly_trades = Append(@, rm_now),
              !.daily_trades = @ + 1,
              !.weather_trades_today =
                  IF rm_last.market_type = "weather" THEN @ + 1 ELSE @,
              !.trades = Append(@, rm_now),
              !.balance = @ - rm_last.amount]
    /\ rm_last' = [NoRiskCall EXCEPT !.call = "trade"]
    /\ UNCHANGED <<rm_now, partialVars, overlapVars, prob_in, prob_out, size_in, size_out,
                   monVars, holdVars, scanVars, ensVars, runVars>>

\* record_outcome(state, trade_id, pnl).
RiskRecordOutcome ==
    /\ \E pnl \in RiskPnls :
         /\ Abs(rm_state.daily_pnl + pnl) <= RiskMaxPnl
         /\ Abs(rm_state.session_pnl + pnl) <= RiskMaxPnl
         /\ rm_state' =
              [rm_state EXCEPT
                 !.balance = @ + pnl,
                 !.daily_pnl = @ + pnl,
                 !.session_pnl = @ + pnl,
                 !.high_water_mark = Max(@, rm_state.balance + pnl)]
    /\ rm_last' = [NoRiskCall EXCEPT !.call = "outcome"]
    /\ UNCHANGED <<rm_now, partialVars, overlapVars, prob_in, prob_out, size_in, size_out,
                   monVars, holdVars, scanVars, ensVars, runVars>>

\* Time passes between calls.
RiskTick ==
    /\ rm_now < RiskMaxNow
    /\ rm_now' = rm_now + 1
    /\ UNCHANGED <<rm_state, rm_last, partialVars, overlapVars, prob_in, prob_out, size_in,
                   size_out, monVars, holdVars, scanVars, ensVars, runVars>>

InitRisk ==
    /\ rm_now = RiskStart
    /\ rm_state = default_state(day_of(RiskStart))
    /\ rm_last = NoRiskCall
    /\ PartialIdle
    /\ OverlapIdle
    /\ prob_in = None
    /\ prob_out = None
    /\ size_in = None
    /\ size_out = None
    /\ MonitorIdle
    /\ HoldIdle
    /\ ScanIdle
    /\ EnsembleIdle
    /\ RunIdle

NextRisk ==
    \/ RiskCheck
    \/ RiskRecordTrade
    \/ RiskRecordOutcome
    \/ RiskTick

SpecRisk == InitRisk /\ [][NextRisk]_vars

-----------------------------------------------------------------------------
(* Trader invocations and order-monitor passes over the persisted state *)

(***************************************************************************)
(* One process runs at a time: a trader invocation (autonomous_trader_v2   *)
(* main) or an order-monitor pass (order_monitor main), each from its      *)
(* start to its end or to a crash.  The decisions taken inside a run (exit *)
(* triggers, entry filter, re-validation) are the subject of SpecMonitor   *)
(* and SpecScan; here every decision may go either way and what is         *)
(* followed is the persisted state: the three files, the in-memory copies  *)
(* a run holds of them, and the orders on the exchange.  open(path, 'w')   *)
(* truncates the file before json.dump fills it, so such a write is two    *)
(* steps with an unreadable file in between; a write to a temporary file   *)
(* followed by a rename is one step.                                       *)
(***************************************************************************)

\* Markets (one token each) the scan can see.
RunTokens == {"a", "b"}

\* Buy orders the exchange accepts over the modelled period, and the exit
\* orders it accepts.
MaxOrders == 1
MaxSells == 2

\* Order ids of the orders found at the start of the modelled period.
LegacyIds == {0}

\* get_balance at startup, mills: below and above the 10 USD floor.
RunBalances == {5000, 50000}

Unreadable(f) == f.state # "ok"

\* PositionTracker.load_state: any exception leaves an empty tracker.
load_state(f) ==
    IF Unreadable(f) THEN EmptyTracker
    ELSE [positions |-> f.positions, exits |-> f.exits]

\* load_open_orders: any exception returns the empty list.
load_open_orders(f) == IF Unreadable(f) THEN <<>> ELSE f.orders

OpenIds(os) == { os[i].order_id : i \in { k \in 1..Len(os) : os[k].status = "OPEN" } }

mark_orders(os, ids, status) ==
    [ i \in 1..Len(os) |-> IF os[i].order_id \in ids
                           THEN [os[i] EXCEPT !.status = status] ELSE os[i] ]

\* Variant: startup leaves local OPEN orders that the exchange no longer lists.
sync_open_orders_keeps_phantoms(os, clob_open_ids) == os

\* startup lines 185-210: local OPEN orders not among the exchange's open
\* orders are marked EXPIRED.
sync_open_orders(os, clob_open_ids) ==
    mark_orders(os, OpenIds(os) \ clob_open_ids, "EXPIRED")

\* Variant: a failed exit drops the position from the tracker.
failed_exit_tracker_drops(tr, tok) ==
    [tr EXCEPT !.positions = [t \in DOMAIN tr.positions \ {tok} |-> tr.positions[t]]]

\* execute_full_exit lines 214-216: the exception is caught before
\* record_exit and remove_position, the tracker is as it was.
failed_exit_tracker(tr, tok) == tr

Event(ev, tok) == [ev |-> ev, tok |-> tok]

SeqOfSet(S) ==
    IF S = {} THEN <<>>
    ELSE IF S = {"a", "b"} THEN <<"a", "b">>
    ELSE <<CHOOSE t \in S : TRUE>>

\* open(path, 'w') on positions_state.json, then json.dump: the file is
\* truncated now and filled by WriteComplete.
WritePositions(data, then, evs) ==
    /\ pos_file' = UnreadablePositions("torn")
    /\ wr' = Some([file |-> "positions", data |-> data, then |-> then])
    /\ run_pc' = "writing"
    /\ run_trace' = run_trace \o evs \o <<Event("write", "positions")>>
    /\ UNCHANGED <<ord_file, ts_file>>

\* The same on open_orders.json.
WriteOrders(data, then, evs) ==
    /\ ord_file' = UnreadableOrders("torn")
    /\ wr' = Some([file |-> "orders", data |-> data, then |-> then])
    /\ run_pc' = "writing"
    /\ run_trace' = run_trace \o evs \o <<Event("write", "orders")>>
    /\ UNCHANGED <<pos_file, ts_file>>

\* The same on trading_state.json (update_state lines 879-880).
WriteState(data, then, evs) ==
    /\ ts_file' = UnreadableState("torn")
    /\ wr' = Some([file |-> "state", data |-> data, then |-> then])
    /\ run_pc' = "writing"
    /\ run_trace' = run_trace \o evs \o <<Event("write", "state")>>
    /\ UNCHANGED <<pos_file, ord_file>>

\* json.dump and the close of the file end the write.
WriteComplete ==
    /\ run_pc = "writing"
    /\ wr # None
    /\ LET w == wr[1]
       IN  /\ pos_file' = IF w.file = "positions" THEN w.data ELSE pos_file
           /\ ord_file' = IF w.file = "orders" THEN w.data ELSE ord_file
           /\ ts_file' = IF w.file = "state" THEN w.data ELSE ts_file
           /\ run_pc' = w.then
    /\ wr' = None
    /\ UNCHANGED <<clob, sells, loaded, tracker, mem_orders, run_queue, run_cur,
                   run_trace, exited_ok, ttl_passed, tracked, monVars, holdVars, scanVars, ensVars, pureVars>>

\* autonomous_trader_v2.startup.
TraderStart ==
    /\ run_pc = "off"
    /\ \E bal \in RunBalances, api_ok \in BOOLEAN :
         LET tr        == load_state(pos_file)
             os        == load_open_orders(ord_file)
             clob_open == IF api_ok THEN { id \in DOMAIN clob : clob[id] = "LIVE" } ELSE {}
             synced    == sync_open_orders(os, clob_open)
         IN  /\ tracker' = tr
             /\ mem_orders' = synced
             /\ loaded' = [ kind |-> "trader", balance |-> bal,
                            positions |-> DOMAIN tr.positions,
                            pos_unreadable |-> Unreadable(pos_file),
                            ord_unreadable |-> Unreadable(ord_file),
                            clob_queried |-> api_ok ]
             /\ IF (OpenIds(os) \ clob_open) # {}
                THEN WriteOrders(OrdersFile(synced), "tr_started", <<>>)
                ELSE /\ run_pc' = "tr_started"
                     /\ UNCHANGED <<pos_file, ord_file, ts_file, wr, run_trace>>
    /\ UNCHANGED <<clob, sells, run_queue, run_cur, exited_ok, ttl_passed, tracked,
                   monVars, holdVars, scanVars, ensVars, pureVars>>

\* main lines 904-910: below the floor the run goes straight to update_state;
\* otherwise monitor_positions takes its snapshot of the active positions.
TraderBranch ==
    /\ run_pc = "tr_started"
    /\ IF loaded.balance < 10000
       THEN /\ run_pc' = "tr_update"
            /\ run_queue' = <<>>
            /\ run_trace' = Append(run_trace, Event("below_floor", ""))
       ELSE /\ run_pc' = "tr_monitor"
            /\ run_queue' = SeqOfSet(DOMAIN tracker.positions)
            /\ run_trace' = Append(run_trace, Event("monitor", ""))
    /\ UNCHANGED <<pos_file, ord_file, ts_file, clob, sells, loaded, tracker, mem_orders,
                   run_cur, wr, exited_ok, ttl_passed, tracked, monVars, holdVars, scanVars, ensVars, pureVars>>

\* One iteration of the loop of monitor_positions: no exit (no price, a
\* consensus hold or no trigger), or an exit whose order the exchange rejects
\* (execute_full_exit returns None) or accepts (post_order returned, line 187).
TraderEvaluate ==
    /\ run_pc = "tr_monitor"
    /\ run_queue # <<>>
    /\ LET tok == Head(run_queue)
       IN  \E outcome \in {"no_exit", "exit_failed", "exit_posted"} :
             /\ run_trace' = Append(run_trace, Event(outcome, tok))
             /\ IF outcome = "exit_posted"
                THEN /\ Len(sells) < MaxSells
                     /\ sells' = Append(sells, [token |-> tok,
                                                order_id |-> tracker.positions[tok]])
                     /\ run_pc' = "tr_exit_posted"
                     /\ run_cur' = tok
                     /\ UNCHANGED <<run_queue, tracker>>
                ELSE /\ run_queue' = Tail(run_queue)
                     /\ tracker' = IF outcome = "exit_failed"
                                   THEN failed_exit_tracker(tracker, tok) ELSE tracker
                     /\ UNCHANGED <<sells, run_pc, run_cur>>
    /\ UNCHANGED <<pos_file, ord_file, ts_file, clob, loaded, mem_orders, wr, exited_ok, ttl_passed, tracked,
                   monVars, holdVars, scanVars, ensVars, pureVars>>

\* execute_full_exit line 209: tracker.record_exit appends and saves.
TraderRecordExit ==
    /\ run_pc = "tr_exit_posted"
    /\ LET tr == [tracker EXCEPT !.exits =
                    Append(@, [token |-> run_cur, order_id |-> tracker.positions[run_cur]])]
       IN  /\ tracker' = tr
           /\ WritePositions(PositionsFile(tr), "tr_exit_recorded", <<>>)
    /\ UNCHANGED <<clob, sells, loaded, mem_orders, run_queue, run_cur, exited_ok, ttl_passed, tracked,
                   monVars, holdVars, scanVars, ensVars, pureVars>>

\* execute_full_exit line 210: tracker.remove_position deletes and saves.
TraderRemovePosition ==
    /\ run_pc = "tr_exit_recorded"
    /\ LET tr == [tracker EXCEPT !.positions =
                    [t \in DOMAIN tracker.positions \ {run_cur} |-> tracker.positions[t]]]
       IN  /\ tracker' = tr
           /\ WritePositions(PositionsFile(tr), "tr_exit_saved", <<>>)
    /\ UNCHANGED <<clob, sells, loaded, mem_orders, run_queue, run_cur, exited_ok, ttl_passed, tracked,
                   monVars, holdVars, scanVars, ensVars, pureVars>>

\* execute_full_exit returns the ExitRecord; monitor_positions logs the exit
\* (lines 521-535) and goes on to the next position.
TraderExitDone ==
    /\ run_pc = "tr_exit_saved"
    /\ exited_ok' = exited_ok \cup {sells[Len(sells)].order_id}
    /\ run_trace' = Append(run_trace, Event("exit_done", run_cur))
    /\ run_queue' = Tail(run_queue)
    /\ run_cur' = ""
    /\ run_pc' = "tr_monitor"
    /\ UNCHANGED <<pos_file, ord_file, ts_file, clob, sells, loaded, tracker, mem_orders,
                   wr, ttl_passed, tracked, monVars, holdVars, scanVars, ensVars,
                   pureVars>>

\* main lines 913-914 and scan_and_trade lines 557-722: the candidates are
\* markets without a position and without a local OPEN order; picked are
\* those that qualify and later pass re-validation.
TraderScan ==
    /\ run_pc = "tr_monitor"
    /\ run_queue = <<>>
    /\ LET os   == load_open_orders(ord_file)
           cids == DOMAIN tracker.positions
                     \cup { os[i].token : i \in { k \in 1..Len(os) : os[k].status = "OPEN" } }
       IN  \E picked \in SUBSET (RunTokens \ cids) :
             run_queue' = SeqOfSet(picked)
    /\ run_trace' = Append(run_trace, Event("scan", ""))
    /\ run_pc' = "tr_scan"
    /\ UNCHANGED <<pos_file, ord_file, ts_file, clob, sells, loaded, tracker, mem_orders,
                   run_cur, wr, exited_ok, ttl_passed, tracked, monVars, holdVars, scanVars, ensVars, pureVars>>

\* One iteration of the placement loop (lines 730-829) for a candidate that
\* passes re-validation: the submission raises (a geo-block ends the loop),
\* or the order is posted and appended to the reloaded order file (811-813).
TraderPlace ==
    /\ run_pc = "tr_scan"
    /\ run_queue # <<>>
    /\ LET tok == Head(run_queue)
       IN  \E outcome \in {"submit_error", "geo_block", "placed"} :
             IF outcome = "placed"
             THEN LET id == Cardinality(DOMAIN clob \ LegacyIds) + 1
                      os == Append(load_open_orders(ord_file),
                                   [order_id |-> id, token |-> tok, status |-> "OPEN",
                                    ttl |-> "aware"])
                  IN  /\ id <= MaxOrders
                      /\ clob' = [i \in DOMAIN clob \cup {id} |->
                                    IF i = id THEN "LIVE" ELSE clob[i]]
                      /\ run_queue' = Tail(run_queue)
                      /\ WriteOrders(OrdersFile(os), "tr_scan", <<Event("placed", tok)>>)
             ELSE /\ run_trace' = Append(run_trace, Event(outcome, tok))
                  /\ run_queue' = IF outcome = "geo_block" THEN <<>> ELSE Tail(run_queue)
                  /\ UNCHANGED <<pos_file, ord_file, ts_file, clob, wr, run_pc>>
    /\ UNCHANGED <<sells, loaded, tracker, mem_orders, run_cur, exited_ok, ttl_passed, tracked,
                   monVars, holdVars, scanVars, ensVars, pureVars>>

\* update_state lines 853-880: trading_state.json is rewritten in place.
TraderUpdate ==
    /\ \/ run_pc = "tr_update"
       \/ run_pc = "tr_scan" /\ run_queue = <<>>
    /\ WriteState(StateFile(tracker, load_open_orders(ord_file)), "tr_state_written", <<>>)
    /\ UNCHANGED <<clob, sells, loaded, tracker, mem_orders, run_queue, run_cur, exited_ok, ttl_passed, tracked,
                   monVars, holdVars, scanVars, ensVars, pureVars>>

\* update_state line 882: tracker.save_state().
TraderSave ==
    /\ run_pc = "tr_state_written"
    /\ WritePositions(PositionsFile(tracker), "done", <<>>)
    /\ UNCHANGED <<clob, sells, loaded, tracker, mem_orders, run_queue, run_cur, exited_ok, ttl_passed, tracked,
                   monVars, holdVars, scanVars, ensVars, pureVars>>

\* order_monitor.main lines 140-165: nothing to do without a local OPEN
\* order; otherwise the tracker and the full order list are loaded.
MonitorPassStart ==
    /\ run_pc = "off"
    /\ LET os == load_open_orders(ord_file)
           open_orders_now == SelectSeq(os, IsOpen)
       IN  IF open_orders_now = <<>>
           THEN UNCHANGED <<run_pc, loaded, tracker, mem_orders, run_queue>>
           ELSE /\ run_pc' = "om_loop"
                /\ loaded' = [ kind |-> "order_monitor", balance |-> 0,
                               positions |-> DOMAIN load_state(pos_file).positions,
                               pos_unreadable |-> Unreadable(pos_file),
                               ord_unreadable |-> Unreadable(ord_file),
                               clob_queried |-> FALSE ]
                /\ tracker' = load_state(pos_file)
                /\ mem_orders' = os
                /\ run_queue' = open_orders_now
    /\ UNCHANGED <<pos_file, ord_file, ts_file, clob, sells, run_cur, wr, run_trace,
                   exited_ok, ttl_passed, tracked, monVars, holdVars, scanVars, ensVars, pureVars>>

\* One order past its TTL (lines 181-210): cancelled on the exchange, marked
\* CANCELLED in memory and trading_state.json rewritten through a temporary
\* file (trading_state_writer lines 111-116); or the cancel call fails.
MonitorPassExpire ==
    /\ run_pc = "om_loop"
    /\ run_queue # <<>>
    /\ Head(run_queue).ttl = "naive"
    /\ Head(run_queue).order_id \in ttl_passed
    /\ LET o == Head(run_queue)
       IN  \E cancelled \in BOOLEAN :
             IF cancelled
             THEN LET os == [ i \in 1..Len(mem_orders) |->
                                IF mem_orders[i].order_id = o.order_id
                                THEN [mem_orders[i] EXCEPT !.status = "CANCELLED"]
                                ELSE mem_orders[i] ]
                  IN  /\ clob' = IF clob[o.order_id] = "LIVE"
                                  THEN [clob EXCEPT ![o.order_id] = "CANCELLED"]
                                  ELSE clob
                      /\ mem_orders' = os
                      /\ ts_file' = StateFile(tracker, os)
                      /\ run_trace' = Append(run_trace, Event("cancelled", o.token))
             ELSE /\ run_trace' = Append(run_trace, Event("cancel_failed", o.token))
                  /\ UNCHANGED <<clob, mem_orders, ts_file>>
    /\ run_queue' = Tail(run_queue)
    /\ UNCHANGED <<pos_file, ord_file, sells, run_pc, loaded, tracker, run_cur, wr,
                   exited_ok, ttl_passed, tracked, monVars, holdVars, scanVars, ensVars, pureVars>>

\* One order inside its TTL (lines 213-290): a fill is marked FILLED in
\* memory and the position is added and saved (tracker.add_position); an
\* order still open, not found or in another status changes no file.
MonitorPassCheck ==
    /\ run_pc = "om_loop"
    /\ run_queue # <<>>
    /\ Head(run_queue).ttl = "naive"
    /\ Head(run_queue).order_id \notin ttl_passed
    /\ LET o == Head(run_queue)
       IN  IF clob[o.order_id] = "FILLED"
           THEN LET tr == [tracker EXCEPT !.positions =
                             [t \in DOMAIN tracker.positions \cup {o.token} |->
                                IF t = o.token THEN o.order_id ELSE tracker.positions[t]]]
                IN  /\ mem_orders' = [ i \in 1..Len(mem_orders) |->
                                         IF mem_orders[i].order_id = o.order_id
                                         THEN [mem_orders[i] EXCEPT !.status = "FILLED"]
                                         ELSE mem_orders[i] ]
                    /\ tracker' = tr
                    /\ tracked' = tracked \cup {o.order_id}
                    /\ run_cur' = o.token
                    /\ UNCHANGED run_queue
                    /\ WritePositions(PositionsFile(tr), "om_filled",
                                      <<Event("filled", o.token)>>)
           ELSE /\ run_trace' = Append(run_trace, Event("still_open", o.token))
                /\ run_queue' = Tail(run_queue)
                /\ UNCHANGED <<pos_file, ord_file, ts_file, wr, run_pc, tracker,
                               mem_orders, run_cur, tracked>>
    /\ UNCHANGED <<clob, sells, loaded, exited_ok, ttl_passed,
                   monVars, holdVars, scanVars, ensVars, pureVars>>

\* Lines 178-181 on an order whose ttl_expiry carries a UTC offset, as every
\* order written by scan_and_trade does (lines 795-807): datetime.now() is
\* naive, the comparison `now > ttl_expiry` raises TypeError, nothing in main
\* catches it and the pass ends there, before the save of line 297.
MonitorPassRaise ==
    /\ run_pc = "om_loop"
    /\ run_queue # <<>>
    /\ Head(run_queue).ttl = "aware"
    /\ run_trace' = Append(run_trace, Event("type_error", Head(run_queue).token))
    /\ run_pc' = "om_raised"
    /\ UNCHANGED <<pos_file, ord_file, ts_file, clob, sells, loaded, tracker, mem_orders,
                   run_queue, run_cur, wr, exited_ok, ttl_passed, tracked,
                   monVars, holdVars, scanVars, ensVars, pureVars>>

\* After a fill (lines 270-275): the order list is read again from the file,
\* replacing the in-memory list, and trading_state.json is rewritten through
\* a temporary file.
MonitorPassReload ==
    /\ run_pc = "om_filled"
    /\ LET os == load_open_orders(ord_file)
       IN  /\ mem_orders' = os
           /\ ts_file' = StateFile(tracker, os)
    /\ run_queue' = Tail(run_queue)
    /\ run_cur' = ""
    /\ run_pc' = "om_loop"
    /\ UNCHANGED <<pos_file, ord_file, clob, sells, loaded, tracker, wr, run_trace,
                   exited_ok, ttl_passed, tracked, monVars, holdVars, scanVars, ensVars, pureVars>>

\* Line 297: save_open_orders(all_orders) after the loop.
MonitorPassSave ==
    /\ run_pc = "om_loop"
    /\ run_queue = <<>>
    /\ WriteOrders(OrdersFile(mem_orders), "done", <<>>)
    /\ UNCHANGED <<clob, sells, loaded, tracker, mem_orders, run_queue, run_cur, exited_ok, ttl_passed, tracked,
                   monVars, holdVars, scanVars, ensVars, pureVars>>

\* The process returns from main, or ends with the traceback of an uncaught
\* exception.
RunEnd ==
    /\ run_pc \in {"done", "om_raised"}
    /\ run_pc' = "off"
    /\ loaded' = NotLoaded
    /\ tracker' = EmptyTracker
    /\ mem_orders' = <<>>
    /\ run_queue' = <<>>
    /\ run_cur' = ""
    /\ run_trace' = <<>>
    /\ UNCHANGED <<pos_file, ord_file, ts_file, clob, sells, wr, exited_ok, ttl_passed, tracked,
                   monVars, holdVars, scanVars, ensVars, pureVars>>

\* The process dies at any point of a run; the files stay as they are.
Crash ==
    /\ run_pc \notin {"off", "done", "om_raised"}
    /\ run_pc' = "off"
    /\ loaded' = NotLoaded
    /\ tracker' = EmptyTracker
    /\ mem_orders' = <<>>
    /\ run_queue' = <<>>
    /\ run_cur' = ""
    /\ run_trace' = <<>>
    /\ wr' = None
    /\ UNCHANGED <<pos_file, ord_file, ts_file, clob, sells, exited_ok, ttl_passed, tracked,
                   monVars, holdVars, scanVars, ensVars, pureVars>>

\* The exchange matches a resting buy order.
ClobFill ==
    /\ run_pc = "off"
    /\ \E id \in DOMAIN clob :
         /\ clob[id] = "LIVE"
         /\ clob' = [clob EXCEPT ![id] = "FILLED"]
    /\ UNCHANGED <<pos_file, ord_file, ts_file, sells, run_pc, loaded, tracker, mem_orders,
                   run_queue, run_cur, wr, run_trace, exited_ok, ttl_passed, tracked,
                   monVars, holdVars, scanVars, ensVars, pureVars>>

\* Time passes: the ttl_expiry of an order goes by.
TtlPass ==
    /\ run_pc = "off"
    /\ \E id \in DOMAIN clob \ ttl_passed :
         ttl_passed' = ttl_passed \cup {id}
    /\ UNCHANGED <<pos_file, ord_file, ts_file, clob, sells, run_pc, loaded, tracker,
                   mem_orders, run_queue, run_cur, wr, run_trace, exited_ok, tracked,
                   monVars, holdVars, scanVars, ensVars, pureVars>>

\* A state file is damaged between runs by something other than the program.
FileDamaged ==
    /\ run_pc = "off"
    /\ \/ /\ pos_file.state = "ok"
          /\ pos_file.positions # NoPositions
          /\ pos_file' = UnreadablePositions("garbage")
          /\ UNCHANGED ord_file
       \/ /\ ord_file.state = "ok"
          /\ ord_file.orders # <<>>
          /\ ord_file' = UnreadableOrders("garbage")
          /\ UNCHANGED pos_file
    /\ UNCHANGED <<ts_file, clob, sells, run_pc, loaded, tracker, mem_orders,
                   run_queue, run_cur, wr, run_trace, exited_ok, ttl_passed, tracked,
                   monVars, holdVars, scanVars, ensVars, pureVars>>

\* An order left in open_orders.json by the previous trader generation
\* (trader-backup-20260218/autonomous_trader_v2.py lines 613-632), whose
\* ttl_expiry is a naive local time, resting on the exchange.
LegacyOrder ==
    [order_id |-> 0, token |-> "a", status |-> "OPEN", ttl |-> "naive"]

\* A fresh installation (no position, no order, no trading state yet), or
\* one taken over from the previous generation with one order pending.
InitRun ==
    /\ \/ RunIdle
       \/ /\ pos_file = PositionsFile(EmptyTracker)
          /\ ord_file = OrdersFile(<<LegacyOrder>>)
          /\ ts_file = StateFile(EmptyTracker, <<LegacyOrder>>)
          /\ clob = [id \in LegacyIds |-> "LIVE"]
          /\ sells = <<>>
          /\ run_pc = "off"
          /\ loaded = NotLoaded
          /\ tracker = EmptyTracker
          /\ mem_orders = <<>>
          /\ run_queue = <<>>
          /\ run_cur = ""
          /\ wr = None
          /\ run_trace = <<>>
          /\ exited_ok = {}
          /\ ttl_passed = {}
          /\ tracked = {}
    /\ MonitorIdle
    /\ HoldIdle
    /\ ScanIdle
    /\ EnsembleIdle
    /\ PureIdle

NextRun ==
    \/ TraderStart
    \/ TraderBranch
    \/ TraderEvaluate
    \/ TraderRecordExit
    \/ TraderRemovePosition
    \/ TraderExitDone
    \/ TraderScan
    \/ TraderPlace
    \/ TraderUpdate
    \/ TraderSave
    \/ MonitorPassStart
    \/ MonitorPassExpire
    \/ MonitorPassCheck
    \/ MonitorPassRaise
    \/ MonitorPassReload
    \/ MonitorPassSave
    \/ WriteComplete
    \/ RunEnd
    \/ Crash
    \/ ClobFill
    \/ TtlPass
    \/ FileDamaged

SpecRun == InitRun /\ [][NextRun]_vars

-----------------------------------------------------------------------------
(* Conditions of the exit rules, stated on the inputs of a decision *)

\* The consensus-hold preconditions for position pos, raw source samples fcs
\* (None when no forecast could be fetched), live price and hours to resolution.
HoldPreconditions(pos, fcs, price, date_known, hrs) ==
    /\ fcs # None
    /\ pos.threshold_temp_f # 0
    /\ date_known
    /\ LET samples == fcs[1]
           native  == prepare_forecasts_for_market(samples, pos.is_us_market)
           thr     == native_threshold(pos.threshold_temp_f, pos.is_us_market)[1]
           need    == get_required_margin(hrs, pos.is_us_market) * 450
       IN  /\ Len(samples) >= 2
           /\ \E i \in 1..Len(samples) : samples[i].is_local
           /\ hrs >= 5
           /\ hrs <= 240
           /\ \A i \in 1..Len(native) :
                IF pos.side = "NO" THEN /\ native[i].high < thr
                                        /\ thr - native[i].high >= need
                                   ELSE /\ native[i].high >= thr
                                        /\ native[i].high - thr >= need
           /\ pos.shares * price * 100 >= 95 * pos.cost_basis

Decided   == dec.price # None
DecPos    == dec.position[1]
DecPrice  == dec.price[1]
DecValue  == DecPos.shares * DecPrice
DecHoldPre ==
    HoldPreconditions(DecPos, dec.fcs, DecPrice, DecPos.market_date # "", dec.hrs)
DecTime   == DecPos.market_date # "" /\ dec.hrs < 80
DecStop   == DecValue * 5 <= DecPos.cost_basis * 4
DecEdge   == \/ DecPos.original_edge = None
             \/ DecPos.entry_price + DecPos.original_edge[1] - DecPrice < 100
DecProfit == DecValue * 10 >= DecPos.cost_basis * 13

RowsOf(t) == { i \in 1..Len(journal) : journal[i].token = t }

\* C1: in one monitoring cycle every active position with an available price
\* gets exactly one action, fixed by the first rule that holds in the order
\* consensus hold, time exit, stop loss, edge evaporation, profit target, and
\* HOLD when none holds.
C1_StrictPriority ==
    /\ Decided =>
         dec.action = IF DecHoldPre THEN "CONSENSUS HOLD"
                      ELSE IF DecTime THEN "EXIT (time)"
                      ELSE IF DecStop THEN "EXIT (stop_loss)"
                      ELSE IF DecEdge THEN "EXIT (edge_evap)"
                      ELSE IF DecProfit THEN "EXIT (profit)"
                      ELSE "HOLD"
    /\ \A i \in 1..Len(journal) : journal[i].token \in mon_snapshot
    /\ \A t \in mon_snapshot : Cardinality(RowsOf(t)) <= 1
    /\ mon_pc = "done" => \A t \in mon_snapshot : Cardinality(RowsOf(t)) = 1

C1_Witness ==
    /\ mon_pc = "done"
    /\ Len(journal) = 2
    /\ Decided
    /\ ~DecHoldPre /\ ~DecTime /\ DecStop /\ DecEdge
    /\ dec.action = "EXIT (stop_loss)"

\* C2 as stated: under consensus hold neither stop loss nor edge evaporation
\* causes an exit, and a held position worth >= 130% of cost is exited on the
\* profit target in the same cycle.
C2_ProfitFiresUnderHold ==
    (Decided /\ DecHoldPre) =>
        /\ dec.trigger \notin {"stop_loss", "edge_evap"}
        /\ DecProfit => dec.action = "EXIT (profit)"

\* C2 amended: when all consensus-hold preconditions hold, no trigger causes
\* an exit in that cycle, the profit target included: the action is CONSENSUS
\* HOLD and the position stays active.
C2_HoldSuppressesEveryExit ==
    (Decided /\ DecHoldPre) =>
        /\ dec.action = "CONSENSUS HOLD"
        /\ dec.trigger = "none"
        /\ ~dec.exited
        /\ dec.token \in DOMAIN positions
        /\ \A i \in 1..Len(exits) : exits[i].token # dec.token

C2_Witness ==
    /\ Decided /\ DecHoldPre /\ DecProfit /\ DecEdge
    /\ dec.action = "CONSENSUS HOLD"

C4_TimeExitInsideEightHours ==
    (Decided /\ ~DecHoldPre /\ DecTime) =>
        /\ dec.trigger = "time"
        /\ dec.action = "EXIT (time)"

C4_Witness ==
    /\ Decided /\ ~DecHoldPre
    /\ dec.hrs = 79 /\ DecPos.market_date # ""
    /\ DecValue * 100 = DecPos.cost_basis * 75
    /\ DecStop /\ DecEdge
    /\ dec.trigger = "time"

\* C5: check_consensus_hold returns hold only if all preconditions hold at
\* once: >= 2 sources with a local one, 0.5h <= time <= 24h, every source on
\* the held side with at least the required margin, and P&L >= -5%.
C5_HoldOnlyIfAllPreconditions ==
    (hold_out = Some(TRUE)) =>
        LET a == hold_in[1]
        IN  HoldPreconditions(a.position, Some(a.fcs), a.current_price, TRUE, a.hrs)

C5_Witness ==
    /\ hold_out = Some(TRUE)
    /\ hold_in[1].current_price = 475
    /\ hold_in[1].hrs = 121
    /\ ~hold_in[1].position.is_us_market
    /\ hold_in[1].position.side = "NO"
    /\ \E i \in 1..Len(hold_in[1].fcs) : hold_in[1].fcs[i].high_c = 70

-----------------------------------------------------------------------------
(* Conditions on one scan cycle *)

ScanDone == scan_pc = "done"

\* The orders appended to open_orders.json by the current scan.
NewOrders ==
    IF scan_pc = "idle" THEN <<>>
    ELSE SubSeq(open_orders, Len(orders_at_start) + 1, Len(open_orders))

OpenAtStart == SelectSeq(orders_at_start, IsOpen)

RECURSIVE SumAmounts(_)
SumAmounts(os) == IF os = <<>> THEN 0 ELSE Head(os).amount + SumAmounts(Tail(os))

Deployed(orders) == Cardinality(DOMAIN positions) + Len(SelectSeq(orders, IsOpen))

\* Event groups already exposed when the scan starts: the events of the feed
\* markets held as positions, and the events of the pending OPEN orders.
HeldEvents ==
    { EventOfMarket(positions[t].condition_id) :
        t \in { u \in DOMAIN positions : positions[u].condition_id \in Markets } }
    \cup { OpenAtStart[i].event_id : i \in 1..Len(OpenAtStart) }

HeldCids ==
    { positions[t].condition_id : t \in DOMAIN positions }
    \cup { OpenAtStart[i].condition_id : i \in 1..Len(OpenAtStart) }

\* C6: within one scan cycle no two orders are placed on the same
\* condition_id, and no two orders are placed on markets of the same event.
C6_NoTwoOrdersPerMarketOrEvent ==
    \A i, j \in 1..Len(NewOrders) :
        i # j => /\ NewOrders[i].condition_id # NewOrders[j].condition_id
                 /\ NewOrders[i].event_id # NewOrders[j].event_id

\* C7: a candidate is rejected when a position or a pending OPEN order already
\* targets its contract, and when a contract of its event group is already
\* held as a position or pending from an earlier cycle.
C7_NoCandidateOnHeldContractOrEvent ==
    scan_pc \in {"place", "done"} =>
        \A i \in 1..Len(qualifying) :
            /\ qualifying[i].condition_id \notin HeldCids
            /\ qualifying[i].event_id \notin HeldEvents

\* C8: a scan cycle that starts with positions + OPEN pending orders <= 10
\* leaves that count <= 10 and places at most 3 new orders.
C8_SlotCapKept ==
    (scan_pc # "idle" /\ Deployed(orders_at_start) <= 10) =>
        /\ Deployed(open_orders) <= 10
        /\ Len(NewOrders) <= 3
        /\ Len(NewOrders) = orders_placed

C8_Witness ==
    /\ ScanDone
    /\ Deployed(orders_at_start) = 8
    /\ Deployed(open_orders) = 10
    /\ Len(NewOrders) = 2
    /\ Len(qualifying) >= 3
    /\ "balance" \notin Range(outcomes)
    /\ "geo_block" \notin Range(outcomes)

\* C9: the n >= 1 orders placed in one scan cycle satisfy
\* n * position_size <= balance - (sum of the amounts of the pending OPEN
\* orders) - 5 USD, whatever size tier the pending orders were placed at.
C9_PlacedWithinAvailableCapital ==
    (ScanDone /\ orders_placed >= 1) =>
        orders_placed * pos_size <= balance_usdc - SumAmounts(OpenAtStart) - 5000

WasPlaced(c) ==
    \E k \in 1..Len(NewOrders) : NewOrders[k].condition_id = c.condition_id

\* The scan ran its loop to the end: no balance break, no geo-block.
LoopRanOut ==
    /\ ScanDone
    /\ "balance" \notin Range(outcomes)
    /\ "geo_block" \notin Range(outcomes)

\* Candidate i was evaluated, and dealt with as its live data demand: skipped
\* if it fails re-validation, placed (or refused by the exchange) if it passes.
EvaluatedAsRanked(i) ==
    /\ i <= Len(outcomes)
    /\ LET r == revalidate(qualifying[i], live[qualifying[i].condition_id])
       IN  IF r = "ok"
           THEN /\ outcomes[i] \in {"placed", "submit_error"}
                /\ outcomes[i] = "placed" <=> WasPlaced(qualifying[i])
           ELSE /\ outcomes[i] = r
                /\ ~WasPlaced(qualifying[i])

-----------------------------------------------------------------------------
(* Conditions on re-validation and on the entry filter *)

\* C11: re-validation computes the same confidence-adjusted edge as the scan
\* for the chosen side: a qualified candidate, YES or NO, whose fresh price
\* equals its scan-time buy price has the scan-time edge again and passes.
C11_RevalidationAgreesWithScan ==
    scan_pc \in {"place", "done"} =>
        \A i \in 1..Len(qualifying) :
            LET c == qualifying[i]
            IN  live[c.condition_id] = Some(c.buy_price) =>
                    /\ (c.forecast_prob - 1000 * c.buy_price) * c.conf = c.edge
                    /\ revalidate(c, live[c.condition_id]) = "ok"

\* The ranked candidate an order of this scan was placed for.
CandidateOfOrder(o) ==
    CHOOSE c \in Range(qualifying) : c.condition_id = o.condition_id

\* C12: every order placed by a scan has a buy-side price within
\* [0.30, 0.70], at scan time and at the freshly fetched execution price.
C12_OrdersWithinPriceBand ==
    \A k \in 1..Len(NewOrders) :
        /\ 300 <= NewOrders[k].price /\ NewOrders[k].price <= 700
        /\ \E c \in Range(qualifying) : c.condition_id = NewOrders[k].condition_id
        /\ 300 <= CandidateOfOrder(NewOrders[k]).buy_price
        /\ CandidateOfOrder(NewOrders[k]).buy_price <= 700

\* An order is placed while the feed also held a market priced below the
\* band at scan time and another whose live price left the band.
C12_Witness ==
    /\ ScanDone
    /\ Len(NewOrders) >= 1
    /\ live["m1"] = Some(250)
    /\ live["m3"] = Some(750)
    /\ "price" \in Range(outcomes)

EnsembleFiltered == ens_pc = "filtered"

\* C13: no opportunity with forecast confidence below 0.80 is selected by the
\* entry filter, and none whose consensus has local_disagrees set, whose
\* confidence is at most 0.50.
C13_NoLowConfidenceSelected ==
    /\ \A i \in 1..Len(ens_qualified) :
           /\ ens_qualified[i].forecast_confidence >= 320
           /\ ~ens_qualified[i].local_disagrees
    /\ \A i \in 1..Len(ens_opps) :
           /\ ens_opps[i].forecast_confidence = ens_forecast[1].confidence
           /\ ens_opps[i].local_disagrees => ens_opps[i].forecast_confidence <= 200
           /\ (EnsembleFiltered /\ ens_opps[i].forecast_confidence < 320) =>
                  \A j \in 1..Len(ens_qualified) : ens_qualified[j] # ens_opps[i]

\* A US event whose NOAA high is 2.5 degrees above the two global highs: the
\* opportunity has a 50% raw edge at 40 cents and three sources, and is
\* rejected on its capped confidence.
C13_Witness ==
    /\ EnsembleFiltered
    /\ ens_in[1].event.is_us
    /\ ens_in[1].om = Some(290) /\ ens_in[1].vc = Some(290) /\ ens_in[1].loc = Some(315)
    /\ Len(ens_opps) = 1
    /\ ens_opps[1].local_disagrees
    /\ ens_opps[1].forecast_confidence = 200
    /\ ens_opps[1].confidence_adjusted_edge >= 200 * 400000
    /\ ens_opps[1].market_yes_price = 400
    /\ ens_qualified = <<>>

\* C14: a domestic market never qualifies with fewer than 3 responding
\* forecast sources, also when the authority source failed to respond and
\* only the two global sources are present.
C14_DomesticNeedsThreeSources ==
    \A i \in 1..Len(ens_qualified) :
        ens_in[1].event.is_us => Len(ens_qualified[i].forecast_sources) >= 3

\* The entry filter's tests other than the 1.0 degree agreement of a
\* non-domestic candidate's sources, for a candidate with a local source.
PassesOtherFilters(opp) ==
    /\ opp.forecast_confidence >= 320
    /\ ~opp.local_disagrees
    /\ opp.confidence_adjusted_edge >= 200 * 400000
    /\ LET p == IF opp.action = "BUY YES" THEN opp.market_yes_price ELSE opp.market_no_price
       IN  300 <= p /\ p <= 700
    /\ Len(opp.forecast_sources) >= 2
    /\ opp.liquidity >= 500

\* C15: the 1.0 degree agreement requirement applies only to non-domestic
\* candidates without a local source: a non-domestic candidate whose local
\* source responded (e.g. 28, 29 and 29.5 degrees against "27 or higher")
\* and which passes all other filters qualifies.
C15_AgreementOnlyWithoutLocal ==
    (EnsembleFiltered /\ ~ens_in[1].event.is_us /\ ens_in[1].event.local_source # None
       /\ ens_in[1].loc # None) =>
        \A i \in 1..Len(ens_opps) :
            PassesOtherFilters(ens_opps[i]) => ens_opps[i] \in Range(ens_qualified)

\* C16: the minimum confidence-adjusted edge is 20% only for a domestic
\* market or when a local source was actually used in the consensus; a
\* candidate whose consensus used global sources only, its configured local
\* source not having responded, must clear 25%.
C16_EdgeFloorByUsedSources ==
    \A i \in 1..Len(ens_qualified) :
        LET opp        == ens_qualified[i]
            local_used == \E k \in 1..Len(opp.individual_forecasts) :
                              opp.individual_forecasts[k].source
                                  \notin {"open_meteo", "visual_crossing"}
        IN  (~ens_in[1].event.is_us /\ ~local_used) =>
                opp.confidence_adjusted_edge >= 250 * 400000

\* The local estimate, when the national source responded, and the global ones.
LocalHigh ==
    IF ens_in[1].loc # None
       /\ local_source_fetched(ens_in[1].event.is_us, ens_in[1].event.local_source) # None
    THEN ens_in[1].loc ELSE None

GlobalHighs ==
    (IF ens_in[1].om # None THEN <<ens_in[1].om[1]>> ELSE <<>>)
    \o (IF ens_in[1].vc # None THEN <<ens_in[1].vc[1]>> ELSE <<>>)

\* The local estimate differs from the mean of the non-local ones by more
\* than 2 degrees.
LocalDiffersByMoreThanTwo ==
    /\ LocalHigh # None
    /\ GlobalHighs # <<>>
    /\ \/ LocalHigh[1] * Len(GlobalHighs) - SumSeq(GlobalHighs) > 20 * Len(GlobalHighs)
       \/ SumSeq(GlobalHighs) - LocalHigh[1] * Len(GlobalHighs) > 20 * Len(GlobalHighs)

\* C17: whenever the consensus has local_disagrees set (the local estimate
\* differs from the mean of the non-local ones by more than 2 degrees), its
\* confidence is at most 0.50, for every number of sources and every spread.
C17_DisagreementCapsConfidence ==
    ens_forecast # None =>
        /\ ens_forecast[1].local_disagrees <=> LocalDiffersByMoreThanTwo
        /\ ens_forecast[1].local_disagrees => ens_forecast[1].confidence <= 200

\* Three sources, spread 2.5 degrees (0.8125 before the cap), local 2.5 above.
C17_Witness ==
    /\ ens_forecast # None
    /\ ens_forecast[1].local_disagrees
    /\ ens_forecast[1].source_count = 3
    /\ ens_forecast[1].spread_c = Some(25)
    /\ ens_forecast[1].confidence = 200

\* The highs of the sources that responded.
RespondingHighs ==
    Range(GlobalHighs) \cup (IF LocalHigh # None THEN {LocalHigh[1]} ELSE {})

RespondingCount == Len(GlobalHighs) + (IF LocalHigh # None THEN 1 ELSE 0)

\* C18: for two or more forecast samples whose highs spread over at most 2
\* degrees, with no local disagreement, the consensus confidence is at least
\* 0.80.
C18_AgreeingSourcesAreConfident ==
    (ens_forecast # None /\ RespondingCount >= 2
       /\ SetMax(RespondingHighs) - SetMin(RespondingHighs) <= 20
       /\ ~LocalDiffersByMoreThanTwo) =>
        ens_forecast[1].confidence >= 320

\* Two sources exactly 2 degrees apart: confidence 0.875.
C18_Witness ==
    /\ ens_forecast # None
    /\ RespondingCount = 2
    /\ SetMax(RespondingHighs) - SetMin(RespondingHighs) = 20
    /\ ~LocalDiffersByMoreThanTwo
    /\ ens_forecast[1].confidence = 350

\* Sources configured for the event: the two global ones and, for a US city
\* or a city with a national source, that source.
ConfiguredCount ==
    IF local_source_fetched(ens_in[1].event.is_us, ens_in[1].event.local_source) # None
    THEN 3 ELSE 2

SourceMissing == ens_in # None /\ 1 <= RespondingCount /\ RespondingCount < ConfiguredCount

HighOr0(r) == IF r = None THEN 0 ELSE r[1]

Has(r) == IF r = None THEN 0 ELSE 1

\* C19 as stated: when a configured source fails to respond the estimate is
\* still produced and weights every responding source equally.
C19_EqualWeightsWhenSourceMissing ==
    (ens_pc # "idle" /\ SourceMissing) =>
        /\ ens_forecast # None
        /\ ens_forecast[1].high_num * RespondingCount
               = (SumSeq(GlobalHighs) + HighOr0(LocalHigh)) * ens_forecast[1].high_den

\* C19 amended: when a configured source fails to respond the estimate is
\* still produced, and the responding sources keep their configured weights
\* renormalised by their sum: 40/35/25 for NOAA / Visual Crossing /
\* Open-Meteo on a US market (35/25 without NOAA), 50/25/25 with a
\* responding national source, 50/50 for the two global sources otherwise.
C19_ConfiguredWeightsRenormalised ==
    (ens_pc # "idle" /\ SourceMissing) =>
        /\ ens_forecast # None
        /\ LET a   == ens_in[1]
               wom == IF a.event.is_us THEN 5 ELSE IF LocalHigh # None THEN 5 ELSE 10
               wvc == IF a.event.is_us THEN 7 ELSE IF LocalHigh # None THEN 5 ELSE 10
               wlo == IF a.event.is_us THEN 8 ELSE 10
               num == wom * HighOr0(a.om) + wvc * HighOr0(a.vc) + wlo * HighOr0(LocalHigh)
               den == wom * Has(a.om) + wvc * Has(a.vc) + wlo * Has(LocalHigh)
           IN  ens_forecast[1].high_num * den = num * ens_forecast[1].high_den

\* A US event without NOAA, Open-Meteo at 28.0 and Visual Crossing at 29.0.
C19_Witness ==
    /\ ens_pc # "idle"
    /\ ens_in[1].event.is_us
    /\ ens_in[1].loc = None
    /\ ens_in[1].om = Some(280)
    /\ ens_in[1].vc = Some(290)
    /\ ens_forecast # None
    /\ ens_forecast[1].high_num * 12 = (5 * 280 + 7 * 290) * ens_forecast[1].high_den

\* C20: with exactly one responding source the consensus confidence is
\* exactly 0.6; with no responding source no forecast is produced and no
\* opportunity is emitted for the event.
C20_LoneSourceAndNoSource ==
    ens_pc # "idle" =>
        /\ RespondingCount = 1 =>
               /\ ens_forecast # None
               /\ ens_forecast[1].confidence = 240
               /\ ens_forecast[1].source_count = 1
        /\ RespondingCount = 0 =>
               /\ ens_forecast = None
               /\ ens_opps = <<>>
               /\ ens_qualified = <<>>

\* One source alone reports 28.0 degrees: an opportunity is emitted at
\* confidence 0.6 and the entry filter drops it.
C20_Witness ==
    /\ EnsembleFiltered
    /\ RespondingCount = 1
    /\ RespondingHighs = {280}
    /\ ens_forecast[1].confidence = 240
    /\ Len(ens_opps) = 1
    /\ ens_opps[1].forecast_confidence = 240
    /\ ens_qualified = <<>>

-----------------------------------------------------------------------------
(* calculate_probability conditions *)

ProbArgs == prob_in[1]

\* Forecast minus bucket temperature in the direction of the market, quarter
\* degrees: positive when the forecast favours YES.
ProbDiff ==
    IF ProbArgs.direction = "or_below" THEN 4 * ProbArgs.temp_c - ProbArgs.forecast_q
                                       ELSE ProbArgs.forecast_q - 4 * ProbArgs.temp_c

\* adjusted_std = 1.5 * (1.5 - confidence) is 3 * (600 - confidence) / 200
\* quarter degrees; the comparisons below are of 200 * ProbDiff with this.
ProbStd200 == 3 * (600 - ProbArgs.confidence)

ThresholdCall == prob_in # None /\ prob_out # None /\ ProbArgs.direction # "exact"

\* C21 (as stated): for an at-or-above market (symmetrically at-or-below) the
\* result is 0.90 whenever the forecast is on the favourable side by at least
\* adjusted_std, and 0.05 whenever it is on the unfavourable side by at least
\* adjusted_std, exactly adjusted_std included.
C21_PlateauAtExactlyStdBelow ==
    ThresholdCall =>
        /\ (200 * ProbDiff >= ProbStd200 => prob_out[1] = 900000)
        /\ (-200 * ProbDiff >= ProbStd200 => prob_out[1] = 50000)

\* C21 (amended): 0.90 when favourable by at least adjusted_std; 0.05 only
\* when unfavourable by strictly more than adjusted_std; at exactly
\* adjusted_std on the unfavourable side the result is the end of the ramp, 0.10.
C21_PlateauStrictlyBeyondStdBelow ==
    ThresholdCall =>
        /\ (200 * ProbDiff >= ProbStd200 => prob_out[1] = 900000)
        /\ (-200 * ProbDiff > ProbStd200 => prob_out[1] = 50000)
        /\ (-200 * ProbDiff = ProbStd200 => prob_out[1] = 100000)

\* An at-or-above market at confidence 0.5 whose forecast is exactly
\* adjusted_std = 1.5 degrees below the bucket temperature, after the call.
C21_Witness ==
    /\ ThresholdCall
    /\ ProbArgs.direction = "or_higher"
    /\ ProbArgs.confidence = 200
    /\ ProbDiff = -6
    /\ prob_out[1] = 100000

\* C22: the probability returned lies in [0.02, 0.98] for every forecast,
\* bucket temperature, direction and confidence in [0, 1].
C22_ProbabilityWithinBounds ==
    (prob_in # None /\ prob_out # None) =>
        (20000 <= prob_out[1] /\ prob_out[1] <= 980000)

\* A call at confidence 1 with the forecast two degrees or more on the
\* favourable side, where the unsaturated ramp would pass 1.
C22_Witness ==
    /\ ThresholdCall
    /\ ProbArgs.confidence = 400
    /\ ProbDiff >= 8
    /\ prob_out[1] = 900000

-----------------------------------------------------------------------------
(* position_size_for conditions *)

\* ceil(balance / 100) for a balance in mills: the least k with 100 k >= balance.
CeilHundreds(b) == CHOOSE k \in 0..20 : k * 100000 >= b /\ (k - 1) * 100000 < b

SizedAsTiered(b, s) ==
    IF b < 10000 THEN s = 0 ELSE s = CeilHundreds(b) * 5000

\* C23: position_size_for returns 0 below the 10 USD floor and otherwise
\* ceil(balance / 100) times 5 USD, and a larger balance never gets a
\* smaller size.
C23_TieredAndNonDecreasing ==
    (size_in # None /\ size_out # None) =>
        LET b == size_in[1]
            s == size_out[1]
        IN  /\ SizedAsTiered(b[1], s[1])
            /\ SizedAsTiered(b[2], s[2])
            /\ (b[1] <= b[2] => s[1] <= s[2])

\* The two sides of the 100 USD bracket edge, sized 5 and 10 USD.
C23_Witness ==
    /\ size_in # None
    /\ size_out # None
    /\ size_in[1] = <<99990, 100010>>
    /\ size_out[1] = <<5000, 10000>>

-----------------------------------------------------------------------------
(* missing-price conditions *)

SkippedRow(r) == r.action = "SKIP (no price)"

\* C30: a position whose price could not be fetched is skipped without any
\* action or state change (it stays active and no exit is recorded for it),
\* and every other position of the cycle still gets its own evaluation.
C30_SkipLeavesOthersEvaluated ==
    /\ \A i \in 1..Len(journal) :
         SkippedRow(journal[i]) =>
           /\ journal[i].token \in DOMAIN positions
           /\ \A k \in 1..Len(exits) : exits[k].token # journal[i].token
    /\ (SkippedRow(dec) => ~dec.exited /\ dec.trigger = "none")
    /\ (mon_pc = "done" => \A t \in mon_snapshot : Cardinality(RowsOf(t)) = 1)

\* A finished cycle over two positions: the first had no price and was
\* skipped, the second was evaluated and exited.
C30_Witness ==
    /\ mon_pc = "done"
    /\ mon_snapshot = {"t1", "t2"}
    /\ Len(journal) = 2
    /\ SkippedRow(journal[1])
    /\ journal[1].token = "t1"
    /\ journal[2].token = "t2"
    /\ dec.exited
    /\ "t1" \in DOMAIN positions
    /\ "t2" \notin DOMAIN positions

-----------------------------------------------------------------------------
(* persistence and crash conditions *)

TraderRun == loaded.kind = "trader"

FoundUnreadable == loaded.pos_unreadable \/ loaded.ord_unreadable

EventsOf(kinds) == { i \in 1..Len(run_trace) : run_trace[i].ev \in kinds }

\* C24: a trader run that finds positions_state.json or open_orders.json
\* unreadable halts before any trading action: it submits no exit, places
\* no order and writes no state file.
C24_HaltsOnUnreadableState ==
    (TraderRun /\ FoundUnreadable) => EventsOf({"exit_posted", "placed", "write"}) = {}

\* C25: no state file is left torn by a crash: whenever no process is
\* running, each of the three files has a complete content.
C25_NoTornFileAfterCrash ==
    run_pc = "off" =>
        /\ pos_file.state # "torn"
        /\ ord_file.state # "torn"
        /\ ts_file.state # "torn"

Occurrences(seq, id) == Cardinality({ i \in 1..Len(seq) : seq[i].order_id = id })

\* C26: across crashes and re-runs no position has an exit order submitted
\* twice, and no position has two exit records in the persisted state.
C26_NoSecondExitAfterCrash ==
    \A id \in DOMAIN clob :
        /\ Occurrences(sells, id) <= 1
        /\ Occurrences(pos_file.exits, id) <= 1

FailureEvents == {"exit_failed", "submit_error", "geo_block"}

\* The step in which a submission fails: the failure is the event added.
SubmissionFails ==
    /\ Len(run_trace') = Len(run_trace) + 1
    /\ run_trace'[Len(run_trace')].ev \in FailureEvents

\* No position is visited again by the monitoring loop after its exit
\* failed, and no candidate is visited again by the placement loop after its
\* submission failed.
NoRetryInCycle ==
    \A i, j \in 1..Len(run_trace) :
        (i < j /\ run_trace[i].tok = run_trace[j].tok) =>
            /\ ~(/\ run_trace[i].ev = "exit_failed"
                 /\ run_trace[j].ev \in {"no_exit", "exit_failed", "exit_posted"})
            /\ ~(/\ run_trace[i].ev \in {"submit_error", "geo_block"}
                 /\ run_trace[j].ev \in {"submit_error", "geo_block", "placed"})

\* C27: a failed exit or entry submission leaves the position set and the
\* pending-order set as they were, in memory, on file and on the exchange
\* (the position stays active, no exit record and no order record is added),
\* and the same position or candidate is not tried again in that cycle.
C27_FailedSubmissionChangesNothing ==
    /\ []NoRetryInCycle
    /\ [][SubmissionFails =>
            /\ UNCHANGED <<pos_file, ord_file, tracker, mem_orders, clob, sells>>
            /\ run_trace'[Len(run_trace')].tok \notin
                 { run_queue'[k] : k \in 1..Len(run_queue') }]_vars

\* A trader run in which the exit of the held position failed and the entry
\* order of a candidate failed, at its end: the position is still active in
\* memory and on file.
C27_Witness ==
    /\ TraderRun
    /\ run_pc = "done"
    /\ \E i \in EventsOf({"exit_failed"}) :
         /\ run_trace[i].tok \in DOMAIN tracker.positions
         /\ pos_file.state = "ok"
         /\ run_trace[i].tok \in DOMAIN pos_file.positions
    /\ EventsOf({"submit_error"}) # {}

\* C28: a position whose full exit succeeded is never again in the persisted
\* active set, whatever trader cycles and order-monitor passes follow.
C28_ExitedNeverReappears ==
    \A t \in DOMAIN pos_file.positions : pos_file.positions[t] \notin exited_ok

\* After a successful exit, the order monitor has seen the exchange report
\* the position's buy order as filled once more, or a later trader cycle
\* has run to its end.
C28_Witness ==
    /\ exited_ok # {}
    /\ run_pc = "done"
    /\ TraderRun
    /\ EventsOf({"exit_done"}) = {}
    /\ \E id \in exited_ok : clob[id] = "FILLED"

\* C29: every trader invocation that runs to its end has evaluated each
\* position that was active at its start, did so before the opportunity
\* scan, and has written the state files, whatever the balance.
C29_TriggersEvaluatedEveryRun ==
    (TraderRun /\ run_pc = "done") =>
        /\ \A t \in loaded.positions :
             \E i \in EventsOf({"no_exit", "exit_failed", "exit_posted"}) :
               /\ run_trace[i].tok = t
               /\ \A k \in EventsOf({"scan"}) : i < k
        /\ \E i \in EventsOf({"write"}) : run_trace[i].tok = "state"

-----------------------------------------------------------------------------
(* Consensus hold against stop loss *)

\* C40: for one position and one price the consensus-hold condition and the
\* stop-loss condition are never both true, so a consensus hold never stands
\* in front of a stop loss: the trigger it pre-empts is time exit, edge
\* evaporation, profit target, or none.
C40_HoldExcludesStopLoss ==
    Decided =>
      /\ ~( /\ consensus_hold_for(DecPos, DecPrice, dec.hrs, dec.fcs)
            /\ check_stop_loss(DecPos, DecPrice) )
      /\ dec.hold => check_exit_triggers(DecPos, DecPrice, dec.hrs) # "stop_loss"

\* A consensus hold that pre-empted an exit trigger.
C40_Witness ==
    /\ Decided
    /\ dec.hold
    /\ check_exit_triggers(DecPos, DecPrice, dec.hrs) \in {"time", "edge_evap", "profit"}

-----------------------------------------------------------------------------
(* Partial-exit conditions *)

PartialExited == pe_last.outcome = "partial_exit"
PartialBefore == pe_last.before[1]
PartialAfter  == pe_positions[pe_last.token]
PartialRecord == pe_exits[Len(pe_exits)]

\* C31: under the partial-exit policy a partial exit happens only at a price
\* of at least twice the entry price, sells exactly half of the shares, keeps
\* the position active with the other half, leaves cost_basis unchanged, sets
\* entry_price to cost_basis / shares_remaining, and recovers at least the
\* cost basis whenever cost_basis = shares * entry_price; an iteration that is
\* not a partial exit changes neither the position nor the exit list.
C31_PartialExitHalvesAndRebases ==
    /\ PartialExited =>
         /\ pe_last.price[1] >= 2 * PartialBefore.entry_price
         /\ 2 * PartialRecord.shares_sold = PartialBefore.shares
         /\ pe_last.token \in DOMAIN pe_positions
         /\ 2 * PartialAfter.shares = PartialBefore.shares
         /\ PartialAfter.shares = PartialRecord.shares_remaining
         /\ PartialAfter.cost_basis = PartialBefore.cost_basis
         /\ PartialAfter.entry_price * PartialAfter.shares = PartialAfter.cost_basis
         /\ PartialBefore.cost_basis = PartialBefore.shares * PartialBefore.entry_price
              => PartialRecord.cost_recovered >= PartialBefore.cost_basis
    /\ pe_last.outcome \in {"no_price", "price_error", "not_yet", "exit_failed"} =>
         PartialAfter = PartialBefore

\* A second partial exit of a position whose cost basis equals shares times
\* entry price: the trigger was judged on the recomputed entry price.
C31_Witness ==
    /\ PartialExited
    /\ PartialBefore.cost_basis = PartialBefore.shares * PartialBefore.entry_price
    /\ \E i \in 1..(Len(pe_exits) - 1) : pe_exits[i].token_id = pe_last.token

-----------------------------------------------------------------------------
(* Risk-manager conditions *)

RecordedTrades == rm_state.trades

TradesInHourFrom(t) ==
    { j \in 1..Len(RecordedTrades) :
        RecordedTrades[j] >= t /\ RecordedTrades[j] < t + TicksPerHour }

\* C34: when every recorded trade was preceded by an allowing check, no
\* one-hour window holds more than MAX_TRADES_PER_HOUR recorded trades,
\* windows spanning the daily counter reset included.
C34_AtMostTwoTradesPerRollingHour ==
    \A i \in 1..Len(RecordedTrades) :
        Cardinality(TradesInHourFrom(RecordedTrades[i])) <= MAX_TRADES_PER_HOUR

RiskChecked == rm_last.call = "check"
PastBetChecks == rm_last.reason \notin {"balance", "max_bet"}

\* C35: check_can_trade gives the daily-loss reason exactly when the
\* accumulated daily P&L is a loss of at least 100 USD, the session-loss
\* reason exactly when the session P&L is a loss of at least 50 USD (and the
\* daily limit is not reached); an accumulated profit never blocks trading.
C35_LossLimitsBlockOnlyLosses ==
    (RiskChecked /\ PastBetChecks) =>
      /\ rm_last.reason = "daily_loss" <=> rm_last.daily_pnl <= 0 - MAX_DAILY_LOSS
      /\ rm_last.reason = "session_loss" <=>
           /\ rm_last.daily_pnl > 0 - MAX_DAILY_LOSS
           /\ rm_last.session_pnl <= 0 - SESSION_LOSS_STOP
      /\ (rm_last.daily_pnl >= 0 /\ rm_last.session_pnl >= 0)
           => rm_last.reason \notin {"daily_loss", "session_loss"}

-----------------------------------------------------------------------------
(* Order-monitor and startup-sync conditions *)

OrderMonitorPass == loaded.kind = "order_monitor"
PassReturned == run_pc = "done" /\ OrderMonitorPass
PassOver == run_pc \in {"done", "om_raised"} /\ OrderMonitorPass

PersistedOrders == load_open_orders(ord_file)

\* C32: when an order-monitor pass in which an OPEN order was reported filled
\* has returned, the persisted position state holds a position for that
\* order and the order's status in open_orders.json is FILLED.
C32_FilledOrderPersistedAsFilled ==
    PassReturned =>
      \A i \in EventsOf({"filled"}) :
        LET tok == run_trace[i].tok
        IN  /\ pos_file.state = "ok"
            /\ tok \in DOMAIN pos_file.positions
            /\ ord_file.state = "ok"
            /\ \A k \in 1..Len(PersistedOrders) :
                 PersistedOrders[k].order_id = pos_file.positions[tok]
                   => PersistedOrders[k].status = "FILLED"

\* C33: when an order-monitor pass is over, no order placed by the trader
\* whose TTL had passed is still OPEN in open_orders.json.
C33_ExpiredOrdersCancelledByPass ==
    PassOver =>
      \A k \in 1..Len(PersistedOrders) :
        ( /\ PersistedOrders[k].ttl = "aware"
          /\ PersistedOrders[k].order_id \in ttl_passed )
          => PersistedOrders[k].status # "OPEN"

\* C37: a trader startup whose open-order query failed changes the status of
\* no local order and does not rewrite open_orders.json.
C37_FailedQueryChangesNoStatus ==
    [][ (run_pc = "off" /\ loaded'.kind = "trader" /\ ~loaded'.clob_queried)
          => (mem_orders' = load_open_orders(ord_file) /\ ord_file' = ord_file) ]_vars

\* C38: an order filled on the exchange is never given up locally (marked
\* CANCELLED or EXPIRED, after which no run looks at it again) without a
\* position having been created for it.
C38_FilledOrderNeverDroppedUntracked ==
    \A k \in 1..Len(PersistedOrders) :
      ( /\ clob[PersistedOrders[k].order_id] = "FILLED"
        /\ PersistedOrders[k].status \in {"CANCELLED", "EXPIRED"} )
        => PersistedOrders[k].order_id \in tracked

-----------------------------------------------------------------------------
(* Entry window against the time exit *)

\* The orders the running scan has appended to open_orders.json.
PlacedThisScan == { i \in 1..Len(open_orders) : i > Len(orders_at_start) }

\* order_monitor.py lines 243-265: the position created when the order fills.
\* market_date is the '%Y-%m-%d' part of the order's market name, the day
\* whose midnight the entry window measured hours_away against.
PositionOfOrder(o) ==
    [ condition_id |-> o.condition_id, side |-> o.side, entry_price |-> o.price,
      shares |-> 10, cost_basis |-> o.amount, original_edge |-> Some(300),
      threshold_temp_f |-> 50, market_date |-> "iso", is_us_market |-> FALSE ]

\* The time exit of check_exit_triggers fires for the position of order o at
\* the moment the order was placed (later the hours left are fewer).
TimeExitHoldsAtEntry(o) ==
    check_exit_triggers(PositionOfOrder(o), o.price, EventHoursAway(o.event_id)) = "time"

\* C39: no order is placed on a market for which the time exit trigger already
\* holds: every market the entry window accepts is at least 8 hours from
\* resolution.
C39_NoEntryInsideTimeExit ==
    \A i \in PlacedThisScan : ~TimeExitHoldsAtEntry(open_orders[i])

-----------------------------------------------------------------------------
(* Overlapping runs on open_orders.json: the placement step of              *)
(* scan_and_trade (autonomous_trader_v2.py lines 781-813) against one pass  *)
(* of order_monitor.main (order_monitor.py lines 139-297).  Each action is  *)
(* one access to the file together with the in-memory work around it; the   *)
(* code takes no lock and the accesses of the two processes interleave      *)
(* freely.                                                                  *)

MaxOverlapOrders == 2
MaxOverlapPasses == 2

\* An order written by the earlier trader, with a naive ttl_expiry.
OverlapLegacy == [order_id |-> 0, status |-> "OPEN", ttl |-> "naive"]

\* scan_and_trade lines 788-809: ttl_expiry is offset-aware.
overlap_order_record(id) == [order_id |-> id, status |-> "OPEN", ttl |-> "aware"]

\* for o in all_orders: if o['order_id'] == order_id: o['status'] = st
with_status(orders, id, st) ==
    [ k \in 1..Len(orders) |->
        IF orders[k].order_id = id THEN [orders[k] EXCEPT !.status = st] ELSE orders[k] ]

overlap_ids(orders) == { orders[k].order_id : k \in 1..Len(orders) }

\* autonomous_trader_v2.py lines 781-812: the order is posted, the file is
\* loaded and the record appended to the loaded list.
OverlapTraderAppend ==
    /\ ov_tr.pc = "idle"
    /\ ov_tr.placed < MaxOverlapOrders
    /\ ov_tr' = [ pc     |-> "appended",
                  orders |-> Append(ov_file, overlap_order_record(ov_tr.placed + 1)),
                  placed |-> ov_tr.placed + 1 ]
    /\ UNCHANGED <<ov_file, ov_om, ov_recorded, partialVars, riskVars, prob_in, prob_out,
                   size_in, size_out, monVars, holdVars, scanVars, ensVars, runVars>>

\* autonomous_trader_v2.py line 813: save_open_orders(all_orders).
OverlapTraderSave ==
    /\ ov_tr.pc = "appended"
    /\ ov_file' = ov_tr.orders
    /\ ov_recorded' = ov_recorded \cup {ov_tr.placed}
    /\ ov_tr' = [ov_tr EXCEPT !.pc = "idle", !.orders = <<>>]
    /\ UNCHANGED <<ov_om, partialVars, riskVars, prob_in, prob_out,
                   size_in, size_out, monVars, holdVars, scanVars, ensVars, runVars>>

\* order_monitor.py lines 140-151: the first load; the pass returns when the
\* file holds no OPEN order.
OverlapMonitorLoad ==
    /\ ov_om.pc = "off"
    /\ ov_om.passes < MaxOverlapPasses
    /\ LET open == SelectSeq(ov_file, LAMBDA o : o.status = "OPEN")
       IN  ov_om' = IF open = <<>>
                    THEN [ov_om EXCEPT !.passes = @ + 1]
                    ELSE [ pc |-> "found", queue |-> open, orders |-> <<>>,
                           passes |-> ov_om.passes + 1 ]
    /\ UNCHANGED <<ov_file, ov_tr, ov_recorded, partialVars, riskVars, prob_in, prob_out,
                   size_in, size_out, monVars, holdVars, scanVars, ensVars, runVars>>

\* order_monitor.py line 165: all_orders = load_open_orders().
OverlapMonitorLoadAll ==
    /\ ov_om.pc = "found"
    /\ ov_om' = [ov_om EXCEPT !.pc = "loop", !.orders = ov_file]
    /\ UNCHANGED <<ov_file, ov_tr, ov_recorded, partialVars, riskVars, prob_in, prob_out,
                   size_in, size_out, monVars, holdVars, scanVars, ensVars, runVars>>

\* order_monitor.py lines 178-181: the TTL comparison raises on an
\* offset-aware ttl_expiry; the pass ends without saving.
OverlapMonitorRaise ==
    /\ ov_om.pc = "loop"
    /\ ov_om.queue # <<>>
    /\ Head(ov_om.queue).ttl = "aware"
    /\ ov_om' = [MonitorAtRest EXCEPT !.passes = ov_om.passes]
    /\ UNCHANGED <<ov_file, ov_tr, ov_recorded, partialVars, riskVars, prob_in, prob_out,
                   size_in, size_out, monVars, holdVars, scanVars, ensVars, runVars>>

\* order_monitor.py lines 167-295 for one order with a naive ttl_expiry:
\* cancelled at its TTL, reported filled (all_orders is marked and then
\* reloaded at line 272), reported missing, or left as it is (still open, a
\* failed cancel, an unknown status).
OverlapMonitorVisit ==
    /\ ov_om.pc = "loop"
    /\ ov_om.queue # <<>>
    /\ Head(ov_om.queue).ttl = "naive"
    /\ \E outcome \in {"cancelled", "filled", "not_found", "open"} :
         LET id == Head(ov_om.queue).order_id
         IN  ov_om' = [ov_om EXCEPT
                         !.queue = Tail(@),
                         !.orders = CASE outcome = "cancelled" -> with_status(@, id, "CANCELLED")
                                      [] outcome = "filled"    -> ov_file
                                      [] outcome = "not_found" -> with_status(@, id, "NOT_FOUND")
                                      [] outcome = "open"      -> @ ]
    /\ UNCHANGED <<ov_file, ov_tr, ov_recorded, partialVars, riskVars, prob_in, prob_out,
                   size_in, size_out, monVars, holdVars, scanVars, ensVars, runVars>>

\* order_monitor.py line 297: save_open_orders(all_orders).
OverlapMonitorSave ==
    /\ ov_om.pc = "loop"
    /\ ov_om.queue = <<>>
    /\ ov_file' = ov_om.orders
    /\ ov_om' = [MonitorAtRest EXCEPT !.passes = ov_om.passes]
    /\ UNCHANGED <<ov_tr, ov_recorded, partialVars, riskVars, prob_in, prob_out,
                   size_in, size_out, monVars, holdVars, scanVars, ensVars, runVars>>

\* open_orders.json is missing or holds orders of the earlier trader.
InitOverlap ==
    /\ ov_file \in { <<>>, <<OverlapLegacy>>,
                     <<[OverlapLegacy EXCEPT !.status = "CANCELLED"]>> }
    /\ ov_tr = TraderAtRest
    /\ ov_om = MonitorAtRest
    /\ ov_recorded = {}
    /\ PartialIdle
    /\ RiskIdle
    /\ prob_in = None
    /\ prob_out = None
    /\ size_in = None
    /\ size_out = None
    /\ MonitorIdle
    /\ HoldIdle
    /\ ScanIdle
    /\ EnsembleIdle
    /\ RunIdle

NextOverlap ==
    \/ OverlapTraderAppend
    \/ OverlapTraderSave
    \/ OverlapMonitorLoad
    \/ OverlapMonitorLoadAll
    \/ OverlapMonitorRaise
    \/ OverlapMonitorVisit
    \/ OverlapMonitorSave

SpecOverlap == InitOverlap /\ [][NextOverlap]_vars

BothAtRest == ov_tr.pc = "idle" /\ ov_om.pc = "off"

\* C36: an order record the trader appended to open_orders.json is never lost
\* when an order-monitor pass interleaves with the placement: once both are
\* at rest, every order the trader recorded is still in the file.
C36_TraderRecordNeverLost ==
    BothAtRest => ov_recorded \subseteq overlap_ids(ov_file)

=============================================================================
